---------------------------- MODULE Spec2Model ----------------------------
(***************************************************************************)
(* OpenClaw Production Toolkit: the governed-execution pipeline.           *)
(*                                                                         *)
(*   policy-engine.js    PolicyEngine    (checkPermission and its helpers) *)
(*   audit-logger.js     AuditLogger     (hash-chained append-only log)    *)
(*   identity-system.js  IdentitySystem  (identities, trust, revocation)   *)
(*   production-agent.js ProductionAgent (execute)                         *)
(*                                                                         *)
(* Conventions.  A JavaScript string that the code inspects character by   *)
(* character (an action, a pattern) is a tuple of one-character strings.   *)
(* A JavaScript object is a function from its keys; a key whose value is   *)
(* undefined is absent from the domain, which is what JSON.stringify       *)
(* writes and what JSON.parse reads back.  null is the empty tuple.        *)
(* SHA-256 is an injective function of the text it digests.                *)
(***************************************************************************)
EXTENDS Integers, Sequences, FiniteSets, TLC

VARIABLES
  policies,       \* PolicyEngine.policies: Map agentId -> policy
  identities,     \* IdentitySystem.identities: Map agentId -> identity
  trustScores,    \* IdentitySystem.trustScores: Map agentId -> number
  identityStore,  \* the files <agentId>.json written by saveIdentity
  currentLog,     \* the lines of AuditLogger.currentLogFile (<<>>: no file)
  logExists,      \* whether currentLogFile exists on disk
  archivedLogs,   \* rotated files: rotation timestamp -> lines
  lastHash,       \* AuditLogger.lastHash
  peerLastHash,   \* lastHash of a second AuditLogger on the same directory
  journal,        \* every line appendFileSync has written, in order
  requireSig,     \* ProductionAgent.options.requireSignature
  now,            \* the clock read by Date.now() / new Date()
  calls,          \* execute calls: one record per call, in call order
  last,           \* the most recent operation and what it returned
  nops            \* operations started so far

vars == <<policies, identities, trustScores, identityStore, currentLog,
          logExists, archivedLogs, lastHash, peerLastHash, journal, requireSig, now,
          calls, last, nops>>

---------------------------------------------------------------------------
(* Bounds of the model.                                                    *)

MaxOps == 4
MaxTime == 1
MaxRules == 2
MaxLen == 3
MaxCalls == 5
MaxWrites == 5

---------------------------------------------------------------------------
(* JavaScript values.                                                      *)

Null == <<>>

\* An object literal: the record r without the keys whose value is undefined.
Obj(r, undef) == [k \in (DOMAIN r) \ undef |-> r[k]]

Has(o, k) == k \in DOMAIN o

\* {k1: o.k1, k2: o.k2, ...}: a key of o that is undefined stays undefined.
Pick(o, keys) == [k \in keys \cap DOMAIN o |-> o[k]]

EmptyObj == [k \in {} |-> 0]

Min(a, b) == IF a <= b THEN a ELSE b
Max(a, b) == IF a >= b THEN a ELSE b

Last(s) == s[Len(s)]

\* String.prototype.startsWith / endsWith on character tuples.
startsWith(s, p) == Len(p) <= Len(s) /\ SubSeq(s, 1, Len(p)) = p
endsWith(s, p) == Len(p) <= Len(s) /\ SubSeq(s, Len(s) - Len(p) + 1, Len(s)) = p

STAR == <<"*">>

---------------------------------------------------------------------------
(* policy-engine.js                                                        *)

\* A matcher that tries the leading wildcard before the trailing one.
matchesPattern_suffixFirst(action, pattern) ==
  IF action = pattern THEN TRUE
  ELSE IF pattern = STAR THEN TRUE
  ELSE IF startsWith(pattern, STAR)
    THEN endsWith(action, SubSeq(pattern, 2, Len(pattern)))
  ELSE IF endsWith(pattern, STAR)
    THEN startsWith(action, SubSeq(pattern, 1, Len(pattern) - 1))
  ELSE FALSE

\* matchesPattern(action, pattern)
matchesPattern(action, pattern) ==
  IF action = pattern THEN TRUE
  ELSE IF pattern = STAR THEN TRUE
  ELSE IF endsWith(pattern, STAR)
    THEN startsWith(action, SubSeq(pattern, 1, Len(pattern) - 1))
  ELSE IF startsWith(pattern, STAR)
    THEN endsWith(action, SubSeq(pattern, 2, Len(pattern)))
  ELSE FALSE

\* evaluateCondition(condition, context).  A condition is held in the form
\* the regular expression of line 232 splits it into: field, operator, value.
evaluateCondition(condition, context) ==
  IF ~Has(context, condition.field) THEN FALSE
  ELSE LET contextValue == context[condition.field]
           value == condition.value
       IN CASE condition.op = ">"  -> contextValue > value
            [] condition.op = "<"  -> contextValue < value
            [] condition.op = ">=" -> contextValue >= value
            [] condition.op = "<=" -> contextValue <= value
            [] condition.op = "==" -> contextValue = value
            [] condition.op = "!=" -> contextValue # value
            [] OTHER -> FALSE

\* A conditional rule that looks at the action only.
matchesConditional_actionOnly(rule, action, context) ==
  ~(Has(rule, "action") /\ ~matchesPattern(action, rule.action))

\* matchesConditional(rule, action, context)
matchesConditional(rule, action, context) ==
  IF Has(rule, "action") /\ ~matchesPattern(action, rule.action) THEN FALSE
  ELSE IF Has(rule, "condition") THEN evaluateCondition(rule.condition, context)
  ELSE FALSE

\* One escalate rule: a string rule matches by pattern, an object rule by
\* matchesConditional (the two typeof branches of checkEscalation).
escalateRuleMatches(rule, action, context) ==
  IF rule.kind = "string" THEN matchesPattern(action, rule.pattern)
  ELSE matchesConditional(rule, action, context)

\* checkEscalation(escalationRules, action, context): the first matching rule
\* in declaration order decides.
checkEscalation(escalationRules, action, context) ==
  LET hits == {i \in 1..Len(escalationRules) :
                 escalateRuleMatches(escalationRules[i], action, context)}
  IN IF hits = {} THEN [requiresEscalation |-> FALSE]
     ELSE LET i == CHOOSE j \in hits : \A k \in hits : j <= k
          IN [allowed |-> FALSE,
              reason |-> [msg |-> "Action requires human escalation",
                          rule |-> escalationRules[i]],
              requiresEscalation |-> TRUE,
              escalationRule |-> escalationRules[i]]

\* matchesRules(action, rules, context)
matchesRules(action, rules, context) ==
  LET hits == {i \in 1..Len(rules) : matchesPattern(action, rules[i])}
  IN IF hits = {} THEN [matches |-> FALSE]
     ELSE LET i == CHOOSE j \in hits : \A k \in hits : j <= k
          IN [matches |-> TRUE, rule |-> rules[i]]

StringRule(p) == [kind |-> "string", pattern |-> p]

---------------------------------------------------------------------------
(* The mutable state as one value, so that a method is an operator from    *)
(* state to state and a handler is the composition of the methods it calls.*)

World ==
  [policies |-> policies, identities |-> identities,
   trustScores |-> trustScores, identityStore |-> identityStore,
   currentLog |-> currentLog, logExists |-> logExists,
   archivedLogs |-> archivedLogs, lastHash |-> lastHash,
   peerLastHash |-> peerLastHash,
   journal |-> journal, now |-> now]

---------------------------------------------------------------------------
(* audit-logger.js                                                         *)

\* options.enableChainValidation.  The one construction of an AuditLogger,
\* ProductionAgent.initialize, passes only retentionDays, so the option keeps
\* its default.
enableChainValidation == TRUE

\* options.rotationSizeMB in units of one entry: the active file is above the
\* threshold when it holds more than RotationSize entries.
RotationSize == 1

SensitiveFields == {"password", "token", "secret", "apiKey", "ssn", "creditCard"}

REDACTED == "[REDACTED]"

\* sanitizeContext(context): a copy with every truthy sensitive field
\* replaced by the marker.
sanitizeContext(context) ==
  [k \in DOMAIN context |->
     IF k \in SensitiveFields /\ context[k] # "" THEN REDACTED ELSE context[k]]

\* hashEntry(entry): SHA-256 of JSON.stringify of the six listed fields.
hashEntry(entry) ==
  <<"sha256",
    Pick(entry, {"type", "timestamp", "agentId", "action", "decision",
                 "previousHash"})>>

\* shouldRotate(): statSync throws when the file is missing, which the
\* catch turns into false.
shouldRotate(w) == w.logExists /\ Len(w.currentLog) > RotationSize

\* A rotation that deletes the file instead of renaming it.
rotateLogFile_discarding(w) ==
  [w EXCEPT !.currentLog = <<>>, !.logExists = FALSE, !.lastHash = Null]

\* A rotation that carries the chain over into the fresh file.
rotateLogFile_keepHash(w) ==
  [w EXCEPT
     !.archivedLogs = [t \in (DOMAIN w.archivedLogs) \cup {w.now} |->
                         IF t = w.now THEN w.currentLog ELSE w.archivedLogs[t]],
     !.currentLog = <<>>,
     !.logExists = FALSE]

\* rotateLogFile(): renameSync replaces a rotated file of the same name (the
\* same Date.now()).
rotateLogFile(w) ==
  [w EXCEPT
     !.archivedLogs = [t \in (DOMAIN w.archivedLogs) \cup {w.now} |->
                         IF t = w.now THEN w.currentLog ELSE w.archivedLogs[t]],
     !.currentLog = <<>>,
     !.logExists = FALSE,
     !.lastHash = Null]

\* entry.previousHash = this.lastHash; entry.hash = this.hashEntry(entry)
chainEntry(entry, previousHash) ==
  LET e1 == [k \in (DOMAIN entry) \cup {"previousHash"} |->
               IF k = "previousHash" THEN previousHash ELSE entry[k]]
  IN [k \in (DOMAIN e1) \cup {"hash"} |->
        IF k = "hash" THEN hashEntry(e1) ELSE e1[k]]

\* writeEntry(entry)
writeEntry(w, entry) ==
  LET w1 == IF shouldRotate(w) THEN rotateLogFile(w) ELSE w
      e1 == IF enableChainValidation THEN chainEntry(entry, w1.lastHash)
            ELSE entry
  IN [w1 EXCEPT
        !.lastHash = IF enableChainValidation THEN e1.hash ELSE @,
        !.currentLog = Append(@, e1),
        !.logExists = TRUE,
        !.journal = Append(@, e1)]

\* logDecision(agentId, action, context, decision, durationMs)
logDecision(w, agentId, action, context, decision, durationMs) ==
  writeEntry(w,
    [type |-> "policy_decision", timestamp |-> w.now, timestampUnix |-> w.now,
     agentId |-> agentId, action |-> action,
     context |-> sanitizeContext(context),
     decision |-> Pick(decision, {"allowed", "reason", "requiresEscalation",
                                  "escalationRule"}),
     durationMs |-> durationMs])

\* logAction(agentId, action, details, result)
logAction(w, agentId, action, details, result) ==
  writeEntry(w,
    [type |-> "agent_action", timestamp |-> w.now, timestampUnix |-> w.now,
     agentId |-> agentId, action |-> action,
     details |-> sanitizeContext(details),
     result |-> Pick(result, {"success", "output", "error"})])

\* An escalation that is not recorded.
logEscalation_silent(w, agentId, action, context, escalationReason, assignedTo) ==
  w

\* logEscalation(agentId, action, context, escalationReason, assignedTo);
\* the escalation ID it returns is entry.timestampUnix, that is w.now.
logEscalation(w, agentId, action, context, escalationReason, assignedTo) ==
  writeEntry(w,
    [type |-> "escalation", timestamp |-> w.now, timestampUnix |-> w.now,
     agentId |-> agentId, action |-> action,
     context |-> sanitizeContext(context),
     escalationReason |-> escalationReason, assignedTo |-> assignedTo,
     status |-> "pending"])

\* A resolution that also closes the escalation entries of the active file
\* that carry the ID.
logEscalationResolution_closing(w, escalationId, resolvedBy, decision, notes) ==
  LET closed == [i \in 1..Len(w.currentLog) |->
                   IF /\ Has(w.currentLog[i], "type")
                      /\ w.currentLog[i].type = "escalation"
                      /\ w.currentLog[i].timestampUnix = escalationId
                     THEN [w.currentLog[i] EXCEPT !.status = "resolved"]
                     ELSE w.currentLog[i]]
  IN writeEntry([w EXCEPT !.currentLog = closed],
       [type |-> "escalation_resolution", timestamp |-> w.now,
        timestampUnix |-> w.now, escalationId |-> escalationId,
        resolvedBy |-> resolvedBy, decision |-> [str |-> decision],
        notes |-> notes])

\* logEscalationResolution(escalationId, resolvedBy, decision, notes)
logEscalationResolution(w, escalationId, resolvedBy, decision, notes) ==
  writeEntry(w,
    [type |-> "escalation_resolution", timestamp |-> w.now,
     timestampUnix |-> w.now, escalationId |-> escalationId,
     resolvedBy |-> resolvedBy, decision |-> [str |-> decision],
     notes |-> notes])

\* logIdentityVerification(agentId, verificationType, result)
logIdentityVerification(w, agentId, verificationType, result) ==
  writeEntry(w,
    [type |-> "identity_verification", timestamp |-> w.now,
     timestampUnix |-> w.now, agentId |-> agentId,
     verificationType |-> verificationType,
     result |-> Pick(result, {"verified", "reason", "trustScore"})])

\* A line of a log file that is not JSON text.
NotJson == [unparseable |-> TRUE]

\* JSON.parse(line) returns rather than throws.
Parses(line) == ~Has(line, "unparseable")

\* The loop of verifyChain from line i on, previousHash being the hash of the
\* line before.
RECURSIVE verifyFrom(_, _, _)
verifyFrom(lines, i, previousHash) ==
  IF i > Len(lines) THEN [valid |-> TRUE, entries |-> Len(lines)]
  ELSE LET entry == lines[i]
       IN IF ~Parses(entry)
            THEN [valid |-> FALSE, error |-> "Invalid JSON", line |-> i]
          ELSE IF ~(Has(entry, "previousHash") /\ entry.previousHash = previousHash)
            THEN [valid |-> FALSE, error |-> "Hash chain broken", line |-> i]
          ELSE IF ~(Has(entry, "hash") /\ entry.hash = hashEntry(entry))
            THEN [valid |-> FALSE, error |-> "Entry hash mismatch", line |-> i]
          ELSE verifyFrom(lines, i + 1, entry.hash)

\* verifyChain(logFile) on the lines of an existing file
verifyChain(lines) == verifyFrom(lines, 1, Null)

LogFileNotFound == [valid |-> FALSE, error |-> "Log file not found"]

\* A verifyChain that reads the file without looking whether it exists.
verifyChainActive_unguarded(w) == verifyChain(w.currentLog)

\* verifyChain(): the active file
verifyChainActive(w) ==
  IF ~w.logExists THEN LogFileNotFound ELSE verifyChain(w.currentLog)

\* verifyChain(logFile), logFile the name of the file rotated at time t
verifyChainRotated(w, t) ==
  IF t \notin DOMAIN w.archivedLogs THEN LogFileNotFound
  ELSE verifyChain(w.archivedLogs[t])

\* The elements of a set of numbers in increasing order.
RECURSIVE Ascending(_)
Ascending(S) ==
  IF S = {} THEN <<>>
  ELSE LET m == CHOOSE x \in S : \A y \in S : x <= y
       IN <<m>> \o Ascending(S \ {m})

\* A listing that knows the active file only.
getLogFiles_activeOnly(w) ==
  IF w.logExists THEN <<w.currentLog>> ELSE <<>>

\* getLogFiles(): the files audit-*.jsonl sorted by name.  A rotated file
\* audit-<date>.<timestamp>.jsonl sorts before the active audit-<date>.jsonl
\* (a digit precedes "j"), and rotated files sort by their timestamps.
getLogFiles(w) ==
  LET times == Ascending(DOMAIN w.archivedLogs)
  IN [i \in 1..Len(times) |-> w.archivedLogs[times[i]]]
     \o (IF w.logExists THEN <<w.currentLog>> ELSE <<>>)

\* matchesFilters(entry, filters).  A filter that is supplied is a key of
\* filters; identifiers are non-empty strings and times are milliseconds
\* of the present era, so every supplied value is truthy.  A field the
\* entry lacks is undefined: different from every identifier, and neither
\* less nor greater than a number.
matchesFilters(entry, filters) ==
  /\ Has(filters, "agentId")
       => Has(entry, "agentId") /\ entry.agentId = filters.agentId
  /\ Has(filters, "type") => Has(entry, "type") /\ entry.type = filters.type
  /\ Has(filters, "action")
       => Has(entry, "action") /\ entry.action = filters.action
  /\ Has(filters, "startTime")
       => ~(Has(entry, "timestampUnix") /\ entry.timestampUnix < filters.startTime)
  /\ Has(filters, "endTime")
       => ~(Has(entry, "timestampUnix") /\ entry.timestampUnix > filters.endTime)
  /\ Has(filters, "allowed")
       => /\ Has(entry, "decision") /\ Has(entry.decision, "allowed")
          /\ entry.decision.allowed = filters.allowed

\* The lines of a list of files, one file after the other.
RECURSIVE linesOf(_)
linesOf(files) ==
  IF files = <<>> THEN <<>> ELSE Head(files) \o linesOf(Tail(files))

\* query(filters): a line JSON.parse rejects is skipped by the catch.
query(w, filters) ==
  SelectSeq(linesOf(getLogFiles(w)),
            LAMBDA line : Parses(line) /\ matchesFilters(line, filters))

\* A report whose denied count leaves out the escalated decisions.
generateComplianceReport_deniedOnly(w, startTime, endTime) ==
  LET entries == query(w, [startTime |-> startTime, endTime |-> endTime])
      decisions == SelectSeq(entries, LAMBDA e : e.type = "policy_decision")
      Allowed(e) == Has(e.decision, "allowed") /\ e.decision.allowed
      Escalated(e) == /\ Has(e.decision, "requiresEscalation")
                      /\ e.decision.requiresEscalation
      escalated == SelectSeq(entries, LAMBDA e : e.type = "escalation")
      ofAgent(a) == SelectSeq(decisions, LAMBDA e : e.agentId = a)
  IN [period |-> [startDate |-> startTime, endDate |-> endTime],
      summary |->
        [totalDecisions |-> Len(decisions),
         allowed |-> Len(SelectSeq(decisions, LAMBDA e : Allowed(e))),
         denied |-> Len(SelectSeq(decisions,
                                  LAMBDA e : ~Allowed(e) /\ ~Escalated(e))),
         escalations |-> Len(SelectSeq(decisions, LAMBDA e : Escalated(e))),
         actions |-> Len(SelectSeq(entries, LAMBDA e : e.type = "agent_action"))],
      byAgent |->
        [a \in {decisions[i].agentId : i \in 1..Len(decisions)} |->
           [allowed |-> Len(SelectSeq(ofAgent(a), LAMBDA e : Allowed(e))),
            denied |-> Len(SelectSeq(ofAgent(a), LAMBDA e : ~Allowed(e))),
            escalations |-> Len(SelectSeq(ofAgent(a), LAMBDA e : Escalated(e)))]],
      byAction |->
        [act \in {decisions[i].action : i \in 1..Len(decisions)} |->
           Len(SelectSeq(decisions, LAMBDA e : e.action = act))],
      escalations |->
        [i \in 1..Len(escalated) |->
           [timestamp |-> escalated[i].timestamp,
            agentId |-> escalated[i].agentId,
            action |-> escalated[i].action,
            reason |-> escalated[i].escalationReason]]]

\* generateComplianceReport(startDate, endDate), the dates as the
\* milliseconds new Date(...).getTime() gives.
generateComplianceReport(w, startTime, endTime) ==
  LET entries == query(w, [startTime |-> startTime, endTime |-> endTime])
      decisions == SelectSeq(entries, LAMBDA e : e.type = "policy_decision")
      Allowed(e) == Has(e.decision, "allowed") /\ e.decision.allowed
      Escalated(e) == /\ Has(e.decision, "requiresEscalation")
                      /\ e.decision.requiresEscalation
      escalated == SelectSeq(entries, LAMBDA e : e.type = "escalation")
      ofAgent(a) == SelectSeq(decisions, LAMBDA e : e.agentId = a)
  IN [period |-> [startDate |-> startTime, endDate |-> endTime],
      summary |->
        [totalDecisions |-> Len(decisions),
         allowed |-> Len(SelectSeq(decisions, LAMBDA e : Allowed(e))),
         denied |-> Len(SelectSeq(decisions, LAMBDA e : ~Allowed(e))),
         escalations |-> Len(SelectSeq(decisions, LAMBDA e : Escalated(e))),
         actions |-> Len(SelectSeq(entries, LAMBDA e : e.type = "agent_action"))],
      byAgent |->
        [a \in {decisions[i].agentId : i \in 1..Len(decisions)} |->
           [allowed |-> Len(SelectSeq(ofAgent(a), LAMBDA e : Allowed(e))),
            denied |-> Len(SelectSeq(ofAgent(a), LAMBDA e : ~Allowed(e))),
            escalations |-> Len(SelectSeq(ofAgent(a), LAMBDA e : Escalated(e)))]],
      byAction |->
        [act \in {decisions[i].action : i \in 1..Len(decisions)} |->
           Len(SelectSeq(decisions, LAMBDA e : e.action = act))],
      escalations |->
        [i \in 1..Len(escalated) |->
           [timestamp |-> escalated[i].timestamp,
            agentId |-> escalated[i].agentId,
            action |-> escalated[i].action,
            reason |-> escalated[i].escalationReason]]]

---------------------------------------------------------------------------
(* policy-engine.js: checkPermission                                       *)

NoRule == [kind |-> "none"]

\* lines 78-82
noPolicyResult(agentId) ==
  [allowed |-> FALSE,
   reason |-> [msg |-> "No policy found for agent", rule |-> NoRule],
   requiresEscalation |-> FALSE]

\* lines 101-105
denyResult(rule) ==
  [allowed |-> FALSE,
   reason |-> [msg |-> "Action explicitly denied by policy rule",
               rule |-> StringRule(rule)],
   requiresEscalation |-> FALSE]

\* lines 116-120
allowResult(rule) ==
  [allowed |-> TRUE,
   reason |-> [msg |-> "Action allowed by policy rule",
               rule |-> StringRule(rule)],
   requiresEscalation |-> FALSE]

\* A default that fails open.
defaultDenyResult_open ==
  [allowed |-> TRUE,
   reason |-> [msg |-> "Action not explicitly allowed (default deny)",
               rule |-> NoRule],
   requiresEscalation |-> FALSE]

\* lines 128-132
defaultDenyResult ==
  [allowed |-> FALSE,
   reason |-> [msg |-> "Action not explicitly allowed (default deny)",
               rule |-> NoRule],
   requiresEscalation |-> FALSE]

\* A return that logs grants only.
logAndReturn_grantsOnly(w, agentId, action, context, result) ==
  [w |-> IF result.allowed
           THEN logDecision(w, agentId, action, context, result, 0) ELSE w,
   ret |-> result]

\* this.auditLogger.logDecision(agentId, action, context, result, ...);
\* return result;
logAndReturn(w, agentId, action, context, result) ==
  [w |-> logDecision(w, agentId, action, context, result, 0), ret |-> result]

\* checkPermission with the allow stage tried before the deny stage.
checkPermission_allowFirst(w, agentId, action, context) ==
  IF ~Has(w.policies, agentId)
    THEN logAndReturn(w, agentId, action, context, noPolicyResult(agentId))
  ELSE
    LET permissions == w.policies[agentId]
        escalation == IF Has(permissions, "escalate")
                        THEN checkEscalation(permissions.escalate, action, context)
                        ELSE [requiresEscalation |-> FALSE]
        denied == IF Has(permissions, "deny")
                    THEN matchesRules(action, permissions.deny, context)
                    ELSE [matches |-> FALSE]
        allowed == IF Has(permissions, "allow")
                     THEN matchesRules(action, permissions.allow, context)
                     ELSE [matches |-> FALSE]
    IN IF escalation.requiresEscalation
         THEN logAndReturn(w, agentId, action, context, escalation)
       ELSE IF allowed.matches
         THEN logAndReturn(w, agentId, action, context, allowResult(allowed.rule))
       ELSE IF denied.matches
         THEN logAndReturn(w, agentId, action, context, denyResult(denied.rule))
       ELSE logAndReturn(w, agentId, action, context, defaultDenyResult)

\* checkPermission(agentId, action, context).  A policy is its permissions
\* object: the rule lists under the keys escalate, deny and allow, each of
\* which may be missing.
checkPermission(w, agentId, action, context) ==
  IF ~Has(w.policies, agentId)
    THEN logAndReturn(w, agentId, action, context, noPolicyResult(agentId))
  ELSE
    LET permissions == w.policies[agentId]
        escalation == IF Has(permissions, "escalate")
                        THEN checkEscalation(permissions.escalate, action, context)
                        ELSE [requiresEscalation |-> FALSE]
        denied == IF Has(permissions, "deny")
                    THEN matchesRules(action, permissions.deny, context)
                    ELSE [matches |-> FALSE]
        allowed == IF Has(permissions, "allow")
                     THEN matchesRules(action, permissions.allow, context)
                     ELSE [matches |-> FALSE]
    IN IF escalation.requiresEscalation
         THEN logAndReturn(w, agentId, action, context, escalation)
       ELSE IF denied.matches
         THEN logAndReturn(w, agentId, action, context, denyResult(denied.rule))
       ELSE IF allowed.matches
         THEN logAndReturn(w, agentId, action, context, allowResult(allowed.rule))
       ELSE logAndReturn(w, agentId, action, context, defaultDenyResult)

---------------------------------------------------------------------------
(* identity-system.js                                                      *)

\* getTrustScore(agentId): this.trustScores.get(agentId) || 0
getTrustScore(w, agentId) ==
  IF Has(w.trustScores, agentId) THEN w.trustScores[agentId] ELSE 0

\* Map.prototype.set
MapSet(m, k, v) == [x \in (DOMAIN m) \cup {k} |-> IF x = k THEN v ELSE m[x]]

\* saveIdentity(identity): the file holds the identity as it is now.
saveIdentity(w, agentId) ==
  [w EXCEPT !.identityStore = MapSet(@, agentId, w.identities[agentId])]

\* A key pair generated by generateKeyPairSync: the n-th pair of the agent.
KeyPair(agentId, n) == <<agentId, n>>

\* loadIdentities(): every stored identity, with trust score
\* identity.trustScore || 100.
loadIdentities(w) ==
  [w EXCEPT
     !.identities = w.identityStore,
     !.trustScores = [a \in DOMAIN w.identityStore |->
                        IF w.identityStore[a].trustScore # 0
                          THEN w.identityStore[a].trustScore ELSE 100]]

\* A createIdentity that replaces an identity that exists.
createIdentity_replacing(w, agentId, metadata) ==
    LET identity ==
          [agentId |-> agentId,
           publicKey |-> KeyPair(agentId, 0),
           privateKey |-> KeyPair(agentId, 0),
           metadata |-> [createdBy |-> IF Has(metadata, "createdBy")
                                         THEN metadata.createdBy ELSE "system"],
           status |-> "active",
           trustScore |-> 100,
           verificationHistory |-> <<>>]
        w1 == [w EXCEPT !.identities = MapSet(@, agentId, identity),
                        !.trustScores = MapSet(@, agentId, 100)]
    IN [w |-> saveIdentity(w1, agentId), threw |-> FALSE,
        ret |-> Pick(identity, {"agentId", "publicKey", "metadata", "trustScore"})]

\* createIdentity(agentId, metadata).  lastVerified: null is the missing key.
createIdentity(w, agentId, metadata) ==
  IF Has(w.identities, agentId) THEN [w |-> w, threw |-> TRUE]
  ELSE
    LET identity ==
          [agentId |-> agentId,
           publicKey |-> KeyPair(agentId, 0),
           privateKey |-> KeyPair(agentId, 0),
           metadata |-> [createdBy |-> IF Has(metadata, "createdBy")
                                         THEN metadata.createdBy ELSE "system"],
           status |-> "active",
           trustScore |-> 100,
           verificationHistory |-> <<>>]
        w1 == [w EXCEPT !.identities = MapSet(@, agentId, identity),
                        !.trustScores = MapSet(@, agentId, 100)]
    IN [w |-> saveIdentity(w1, agentId), threw |-> FALSE,
        ret |-> Pick(identity, {"agentId", "publicKey", "metadata", "trustScore"})]

\* signMessage(agentId, message): a signature names the key that made it
\* and the message it covers.
signMessage(w, agentId, message) ==
  [key |-> w.identities[agentId].privateKey, msg |-> message]

\* verifySignature(publicKey, message, signature)
verifySignature(publicKey, message, signature) ==
  signature.key = publicKey /\ signature.msg = message

\* An increment without the ceiling.
incrementTrustScore_uncapped(w, agentId, amount) ==
  LET current == getTrustScore(w, agentId)
      newScore == current + amount
      w1 == [w EXCEPT !.trustScores = MapSet(@, agentId, newScore)]
  IN IF Has(w1.identities, agentId)
       THEN saveIdentity([w1 EXCEPT !.identities[agentId].trustScore = newScore],
                         agentId)
       ELSE w1

\* incrementTrustScore(agentId, amount, reason)
incrementTrustScore(w, agentId, amount) ==
  LET current == getTrustScore(w, agentId)
      newScore == Min(100, current + amount)
      w1 == [w EXCEPT !.trustScores = MapSet(@, agentId, newScore)]
  IN IF Has(w1.identities, agentId)
       THEN saveIdentity([w1 EXCEPT !.identities[agentId].trustScore = newScore],
                         agentId)
       ELSE w1

\* revokeIdentity(agentId, reason)
revokeIdentity(w, agentId, reason) ==
  IF ~Has(w.identities, agentId) THEN [w |-> w, threw |-> TRUE]
  ELSE
    LET old == w.identities[agentId]
        identity == [k \in (DOMAIN old) \cup {"revokedAt", "revocationReason"} |->
                       CASE k = "status" -> "revoked"
                         [] k = "revokedAt" -> w.now
                         [] k = "revocationReason" -> reason
                         [] OTHER -> old[k]]
        w1 == saveIdentity([w EXCEPT !.identities[agentId] = identity], agentId)
        w2 == [w1 EXCEPT !.trustScores = MapSet(@, agentId, 0)]
    IN [w |-> logIdentityVerification(w2, agentId, "revocation",
                [verified |-> FALSE,
                 reason |-> "Identity revoked: " \o reason,
                 trustScore |-> 0]),
        threw |-> FALSE]

\* A decrement that clamps at zero and leaves the identity active.
decrementTrustScore_noRevoke(w, agentId, amount) ==
  LET current == getTrustScore(w, agentId)
      newScore == Max(0, current - amount)
      w1 == [w EXCEPT !.trustScores = MapSet(@, agentId, newScore)]
  IN [w |-> IF Has(w1.identities, agentId)
              THEN saveIdentity(
                     [w1 EXCEPT !.identities[agentId].trustScore = newScore],
                     agentId)
              ELSE w1,
      threw |-> FALSE]

\* decrementTrustScore(agentId, amount, reason)
decrementTrustScore(w, agentId, amount) ==
  LET current == getTrustScore(w, agentId)
      newScore == Max(0, current - amount)
      w1 == [w EXCEPT !.trustScores = MapSet(@, agentId, newScore)]
      w2 == IF Has(w1.identities, agentId)
              THEN saveIdentity(
                     [w1 EXCEPT !.identities[agentId].trustScore = newScore],
                     agentId)
              ELSE w1
  IN IF newScore = 0 THEN revokeIdentity(w2, agentId, "Trust score reached zero")
     ELSE [w |-> w2, threw |-> FALSE]

\* A return that logs successful verifications only.
logAndReturnVerification_successOnly(w, agentId, verificationType, result) ==
  [w |-> IF result.verified
           THEN logIdentityVerification(w, agentId, verificationType, result)
           ELSE w,
   ret |-> result]

\* this.auditLogger.logIdentityVerification(agentId, type, result);
\* return result;
logAndReturnVerification(w, agentId, verificationType, result) ==
  [w |-> logIdentityVerification(w, agentId, verificationType, result),
   ret |-> result]

\* The trust score below which verifyIdentity refuses (line 186).
MinTrustScore == 50

\* The length verificationHistory is cut to (lines 206-207).
MaxHistory == 100

\* lines 198-219 of verifyIdentity: the verified path
verifiedPath(w, agentId, credentials, trustScore) ==
  LET old == w.identities[agentId]
      pushed == Append(old.verificationHistory,
                  [timestamp |-> w.now,
                   method |-> IF Has(credentials, "signature")
                                THEN "signature" ELSE "basic",
                   success |-> TRUE])
      history == IF Len(pushed) > MaxHistory
                   THEN SubSeq(pushed, Len(pushed) - MaxHistory + 1, Len(pushed))
                   ELSE pushed
      identity == [k \in (DOMAIN old) \cup {"lastVerified"} |->
                     CASE k = "lastVerified" -> w.now
                       [] k = "verificationHistory" -> history
                       [] OTHER -> old[k]]
      w1 == saveIdentity([w EXCEPT !.identities[agentId] = identity], agentId)
  IN logAndReturnVerification(w1, agentId, "identity_check",
       [verified |-> TRUE, reason |-> "Identity verified successfully",
        trustScore |-> trustScore])

\* A trust gate that a caller presenting a signature passes unchecked.
trustGate_signedBypass(w, agentId, credentials) ==
  LET trustScore == getTrustScore(w, agentId)
  IN IF trustScore < MinTrustScore /\ ~Has(credentials, "signature")
       THEN logAndReturnVerification(w, agentId, "trust_score_check",
              [verified |-> FALSE, reason |-> "Trust score too low for operation",
               trustScore |-> trustScore])
       ELSE verifiedPath(w, agentId, credentials, trustScore)

\* A gate that lets scores down to one failure below the threshold pass.
trustGate_lenient(w, agentId, credentials) ==
  LET trustScore == getTrustScore(w, agentId)
  IN IF trustScore < MinTrustScore - 5
       THEN logAndReturnVerification(w, agentId, "trust_score_check",
              [verified |-> FALSE, reason |-> "Trust score too low for operation",
               trustScore |-> trustScore])
       ELSE verifiedPath(w, agentId, credentials, trustScore)

\* lines 184-195 of verifyIdentity: the trust gate
trustGate(w, agentId, credentials) ==
  LET trustScore == getTrustScore(w, agentId)
  IN IF trustScore < MinTrustScore
       THEN logAndReturnVerification(w, agentId, "trust_score_check",
              [verified |-> FALSE, reason |-> "Trust score too low for operation",
               trustScore |-> trustScore])
       ELSE verifiedPath(w, agentId, credentials, trustScore)

\* A revocation that lapses once the stored score is positive again.
isRevoked_whileZero(identity) ==
  identity.status = "revoked" /\ identity.trustScore = 0

\* if (identity.status === 'revoked')                             (line 150)
isRevoked(identity) == identity.status = "revoked"

\* A signature failure that reports the score read before the penalty.
verifyIdentity_scoreBeforePenalty(w, agentId, credentials) ==
  IF ~Has(w.identities, agentId)
    THEN logAndReturnVerification(w, agentId, "identity_check",
           [verified |-> FALSE, reason |-> "Agent identity not found",
            trustScore |-> 0])
  ELSE IF isRevoked(w.identities[agentId])
    THEN logAndReturnVerification(w, agentId, "identity_check",
           [verified |-> FALSE, reason |-> "Agent identity has been revoked",
            trustScore |-> 0])
  ELSE IF /\ Has(credentials, "signature") /\ Has(credentials, "message")
          /\ ~verifySignature(w.identities[agentId].publicKey,
                              credentials.message, credentials.signature)
    THEN LET w1 == decrementTrustScore(w, agentId, 10).w
         IN logAndReturnVerification(w1, agentId, "signature_verification",
              [verified |-> FALSE, reason |-> "Invalid signature",
               trustScore |-> getTrustScore(w, agentId)])
  ELSE trustGate(w, agentId, credentials)

\* verifyIdentity(agentId, credentials)
verifyIdentity(w, agentId, credentials) ==
  IF ~Has(w.identities, agentId)
    THEN logAndReturnVerification(w, agentId, "identity_check",
           [verified |-> FALSE, reason |-> "Agent identity not found",
            trustScore |-> 0])
  ELSE IF isRevoked(w.identities[agentId])
    THEN logAndReturnVerification(w, agentId, "identity_check",
           [verified |-> FALSE, reason |-> "Agent identity has been revoked",
            trustScore |-> 0])
  ELSE IF /\ Has(credentials, "signature") /\ Has(credentials, "message")
          /\ ~verifySignature(w.identities[agentId].publicKey,
                              credentials.message, credentials.signature)
    THEN LET w1 == decrementTrustScore(w, agentId, 10).w
         IN logAndReturnVerification(w1, agentId, "signature_verification",
              [verified |-> FALSE, reason |-> "Invalid signature",
               trustScore |-> getTrustScore(w1, agentId)])
  ELSE trustGate(w, agentId, credentials)

\* rotateKeypair(agentId)
rotateKeypair(w, agentId) ==
  IF ~Has(w.identities, agentId) THEN [w |-> w, threw |-> TRUE]
  ELSE
    LET old == w.identities[agentId]
        archivedKeys == Append(
                          IF Has(old, "archivedKeys") THEN old.archivedKeys ELSE <<>>,
                          [publicKey |-> old.publicKey, archivedAt |-> w.now])
        fresh == KeyPair(agentId, Len(archivedKeys))
        identity == [k \in (DOMAIN old) \cup {"archivedKeys", "keyRotatedAt"} |->
                       CASE k = "archivedKeys" -> archivedKeys
                         [] k = "publicKey" -> fresh
                         [] k = "privateKey" -> fresh
                         [] k = "keyRotatedAt" -> w.now
                         [] OTHER -> old[k]]
    IN [w |-> saveIdentity([w EXCEPT !.identities[agentId] = identity], agentId),
        threw |-> FALSE]

---------------------------------------------------------------------------
(* production-agent.js                                                     *)

\* this.agentId of the ProductionAgent
ThisAgent == "a1"

\* ProductionAgent.verifyIdentity(context)
agentVerifyIdentity(w, requireSignature, context) ==
  LET credentials ==
        IF requireSignature /\ Has(context, "signature")
          THEN [signature |-> context.signature,
                message |-> IF Has(context, "message") THEN context.message
                            ELSE <<"json", context>>]
          ELSE EmptyObj
  IN verifyIdentity(w, ThisAgent, credentials)

\* An identity check whose failure is not acted on.
identityFails_never(identityCheck) == FALSE

\* if (!identityCheck.verified)                                    (line 88)
identityFails(identityCheck) == ~identityCheck.verified

\* if (policyCheck.requiresEscalation)                            (line 100)
policyEscalates(policyCheck) ==
  Has(policyCheck, "requiresEscalation") /\ policyCheck.requiresEscalation

\* A denial that falls through to step 3.
policyDenies_skipped(policyCheck) == FALSE

\* if (!policyCheck.allowed)                                      (line 119)
policyDenies(policyCheck) ==
  ~(Has(policyCheck, "allowed") /\ policyCheck.allowed)

\* The trust deltas of step 5 (lines 150 and 152).
SuccessReward == 1
FailurePenalty == 5

\* A completion that rewards success and lets failure pass.
completeExecute_noPenalty(w, call, result) ==
  LET w1 == logAction(w, ThisAgent, call.action, call.context, result)
      w2 == IF result.success
              THEN incrementTrustScore(w1, ThisAgent, SuccessReward)
              ELSE w1
      ret == [k \in (DOMAIN result) \cup {"executionTime", "agentId", "trustScore"} |->
                CASE k = "executionTime" -> w.now - call.startTime
                  [] k = "agentId" -> ThisAgent
                  [] k = "trustScore" -> getTrustScore(w2, ThisAgent)
                  [] OTHER -> result[k]]
  IN [w |-> w2,
      call |-> [k \in (DOMAIN call) \cup {"state", "ret"} |->
                  CASE k = "state" -> "returned"
                    [] k = "ret" -> ret
                    [] OTHER -> call[k]]]

\* A completion that adjusts the trust score before it logs the action.
completeExecute_adjustFirst(w, call, result) ==
  LET w1 == IF result.success
              THEN incrementTrustScore(w, ThisAgent, SuccessReward)
              ELSE decrementTrustScore(w, ThisAgent, FailurePenalty).w
      w2 == logAction(w1, ThisAgent, call.action, call.context, result)
      ret == [k \in (DOMAIN result) \cup {"executionTime", "agentId", "trustScore"} |->
                CASE k = "executionTime" -> w.now - call.startTime
                  [] k = "agentId" -> ThisAgent
                  [] k = "trustScore" -> getTrustScore(w2, ThisAgent)
                  [] OTHER -> result[k]]
  IN [w |-> w2,
      call |-> [k \in (DOMAIN call) \cup {"state", "ret"} |->
                  CASE k = "state" -> "returned"
                    [] k = "ret" -> ret
                    [] OTHER -> call[k]]]

\* A completion that adjusts the trust score the call read when it began.
completeExecute_staleScore(w, call, result) ==
  LET w1 == logAction(w, ThisAgent, call.action, call.context, result)
      stale == [w1 EXCEPT !.trustScores =
                            MapSet(@, ThisAgent, call.identityCheck.trustScore)]
      w2 == IF result.success
              THEN incrementTrustScore(stale, ThisAgent, SuccessReward)
              ELSE decrementTrustScore(stale, ThisAgent, FailurePenalty).w
      ret == [k \in (DOMAIN result) \cup {"executionTime", "agentId", "trustScore"} |->
                CASE k = "executionTime" -> w.now - call.startTime
                  [] k = "agentId" -> ThisAgent
                  [] k = "trustScore" -> getTrustScore(w2, ThisAgent)
                  [] OTHER -> result[k]]
  IN [w |-> w2,
      call |-> [k \in (DOMAIN call) \cup {"state", "ret"} |->
                  CASE k = "state" -> "returned"
                    [] k = "ret" -> ret
                    [] OTHER -> call[k]]]

\* Steps 4 and 5 of execute and its return (lines 145-160), for the result
\* of step 3.
completeExecute(w, call, result) ==
  LET w1 == logAction(w, ThisAgent, call.action, call.context, result)
      w2 == IF result.success
              THEN incrementTrustScore(w1, ThisAgent, SuccessReward)
              ELSE decrementTrustScore(w1, ThisAgent, FailurePenalty).w
      ret == [k \in (DOMAIN result) \cup {"executionTime", "agentId", "trustScore"} |->
                CASE k = "executionTime" -> w.now - call.startTime
                  [] k = "agentId" -> ThisAgent
                  [] k = "trustScore" -> getTrustScore(w2, ThisAgent)
                  [] OTHER -> result[k]]
  IN [w |-> w2,
      call |-> [k \in (DOMAIN call) \cup {"state", "ret"} |->
                  CASE k = "state" -> "returned"
                    [] k = "ret" -> ret
                    [] OTHER -> call[k]]]

\* execute(action, context, executor) up to its return or to the await of
\* line 132.  The call record keeps what the call saw: identityCheck,
\* policyCheck, how often it invoked the executor, and what it returned.
execute(w, requireSignature, action, context, executor) ==
  LET base == [action |-> action, context |-> context, executor |-> executor,
               startTime |-> w.now, invoked |-> 0]
      r1 == agentVerifyIdentity(w, requireSignature, context)
      identityCheck == r1.ret
      seen1 == [k \in (DOMAIN base) \cup {"identityCheck"} |->
                  IF k = "identityCheck" THEN identityCheck ELSE base[k]]
      returned(c, ret) == [k \in (DOMAIN c) \cup {"state", "ret"} |->
                             CASE k = "state" -> "returned"
                               [] k = "ret" -> ret
                               [] OTHER -> c[k]]
  IN IF identityFails(identityCheck)
       THEN [w |-> r1.w,
             call |-> returned(seen1,
                        [success |-> FALSE,
                         error |-> "Identity verification failed: "
                                     \o identityCheck.reason,
                         trustScore |-> identityCheck.trustScore])]
     ELSE
       LET r2 == checkPermission(r1.w, ThisAgent, action, context)
           policyCheck == r2.ret
           seen2 == [k \in (DOMAIN seen1) \cup {"policyCheck"} |->
                       IF k = "policyCheck" THEN policyCheck ELSE seen1[k]]
       IN IF policyEscalates(policyCheck)
            THEN [w |-> logEscalation(r2.w, ThisAgent, action, context,
                                      policyCheck.reason, "human-review"),
                  call |-> returned(seen2,
                             Pick([success |-> FALSE,
                                   requiresEscalation |-> TRUE,
                                   escalationId |-> r2.w.now,
                                   reason |-> policyCheck.reason,
                                   escalationRule |->
                                     IF Has(policyCheck, "escalationRule")
                                       THEN policyCheck.escalationRule
                                       ELSE NoRule],
                                  {"success", "requiresEscalation",
                                   "escalationId", "reason"}
                                  \cup (IF Has(policyCheck, "escalationRule")
                                          THEN {"escalationRule"} ELSE {})))]
          ELSE IF policyDenies(policyCheck)
            THEN [w |-> r2.w,
                  call |-> returned(seen2,
                             [success |-> FALSE,
                              error |-> policyCheck.reason,
                              policyDenied |-> TRUE])]
          ELSE IF executor
            THEN [w |-> r2.w,
                  call |-> [k \in (DOMAIN seen2) \cup {"state"} |->
                              CASE k = "state" -> "awaiting"
                                [] k = "invoked" -> seen2.invoked + 1
                                [] OTHER -> seen2[k]]]
          ELSE completeExecute(r2.w, seen2, [success |-> TRUE])

---------------------------------------------------------------------------
(* The inputs the operations are driven with.                              *)

Agents == {"a1", "a2"}

ReadX == <<"r", ":", "x">>
DeleteX == <<"d", ":", "x">>
Refund == <<"f">>
Actions == {ReadX, DeleteX, Refund}

Contexts == {EmptyObj, [amount |-> 700]}

\* The policy of end-to-end scenarios A and B: reads allowed, deletes denied,
\* refunds allowed but escalated above 500.
ScenarioPolicy ==
  [escalate |-> <<[kind |-> "object", action |-> Refund,
                   condition |-> [field |-> "amount", op |-> ">", value |-> 500]]>>,
   deny |-> <<<<"d", ":", "*">>>>,
   allow |-> <<<<"r", ":", "*">>, Refund>>]

Amounts == {-60, 60}

Msg == <<"m">>

CredKinds == {"none", "valid", "forged"}

\* The credentials a caller of kind c presents for agent a.
Credentials(w, a, c) ==
  CASE c = "none" -> EmptyObj
    [] c = "valid" ->
         [signature |-> IF Has(w.identities, a) THEN signMessage(w, a, Msg)
                        ELSE [key |-> KeyPair(a, 0), msg |-> Msg],
          message |-> Msg]
    [] OTHER -> [signature |-> [key |-> KeyPair("forged", 0), msg |-> Msg],
                 message |-> Msg]

---------------------------------------------------------------------------
(* Initial state: a ProductionAgent for ThisAgent constructed over empty   *)
(* audit and identity directories (initialize, ensureIdentity).            *)

EmptyWorld ==
  [policies |-> EmptyObj, identities |-> EmptyObj, trustScores |-> EmptyObj,
   identityStore |-> EmptyObj, currentLog |-> <<>>, logExists |-> FALSE,
   archivedLogs |-> EmptyObj, lastHash |-> Null, peerLastHash |-> Null,
   journal |-> <<>>, now |-> 0]

\* ensureIdentity(): autoCreateIdentity is on by default.
ensureIdentity(w) ==
  IF Has(w.identities, ThisAgent) THEN w
  ELSE createIdentity(w, ThisAgent, [createdBy |-> "auto"]).w

Commit(w) ==
  /\ policies' = w.policies
  /\ identities' = w.identities
  /\ trustScores' = w.trustScores
  /\ identityStore' = w.identityStore
  /\ currentLog' = w.currentLog
  /\ logExists' = w.logExists
  /\ archivedLogs' = w.archivedLogs
  /\ lastHash' = w.lastHash
  /\ peerLastHash' = w.peerLastHash
  /\ journal' = w.journal
  /\ now' = w.now

InitWith(w, sig) ==
  /\ policies = w.policies
  /\ identities = w.identities
  /\ trustScores = w.trustScores
  /\ identityStore = w.identityStore
  /\ currentLog = w.currentLog
  /\ logExists = w.logExists
  /\ archivedLogs = w.archivedLogs
  /\ lastHash = w.lastHash
  /\ peerLastHash = w.peerLastHash
  /\ journal = w.journal
  /\ now = w.now
  /\ requireSig = sig
  /\ calls = <<>>
  /\ last = [op |-> "init"]
  /\ nops = 0

Init ==
  InitWith(ensureIdentity([EmptyWorld EXCEPT
                             !.policies = MapSet(EmptyObj, ThisAgent, ScenarioPolicy)]),
           FALSE)

---------------------------------------------------------------------------
(* Operations.                                                             *)

Began(op) == /\ nops' = nops + 1
             /\ requireSig' = requireSig

Execute(action, context, executor) ==
  /\ Began("execute")
  /\ LET r == execute(World, requireSig, action, context, executor)
     IN /\ Commit(r.w)
        /\ calls' = Append(calls, r.call)
        /\ last' = [op |-> "execute", call |-> Len(calls) + 1]

\* The awaited executor returns.
TaskReturns(i) ==
  /\ calls[i].state = "awaiting"
  /\ \E r \in {completeExecute(World, calls[i], [success |-> TRUE, output |-> "out"])} :
        /\ Commit(r.w)
        /\ calls' = [calls EXCEPT ![i] = r.call]
        /\ last' = [op |-> "taskReturns", call |-> i]
  /\ nops' = nops + 1
  /\ requireSig' = requireSig

\* The awaited executor throws.
TaskThrows(i) ==
  /\ calls[i].state = "awaiting"
  /\ \E r \in {completeExecute(World, calls[i], [success |-> FALSE, error |-> "err"])} :
        /\ Commit(r.w)
        /\ calls' = [calls EXCEPT ![i] = r.call]
        /\ last' = [op |-> "taskThrows", call |-> i]
  /\ nops' = nops + 1
  /\ requireSig' = requireSig

VerifyIdentity(a, c) ==
  /\ Began("verifyIdentity")
  /\ LET credentials == Credentials(World, a, c)
         r == verifyIdentity(World, a, credentials)
     IN /\ Commit(r.w)
        /\ last' = [op |-> "verifyIdentity", agentId |-> a,
                    credentials |-> credentials, ret |-> r.ret]
  /\ UNCHANGED calls

CheckPermission(a, action, context) ==
  /\ Began("checkPermission")
  /\ LET r == checkPermission(World, a, action, context)
     IN /\ Commit(r.w)
        /\ last' = [op |-> "checkPermission", agentId |-> a, action |-> action,
                    context |-> context, ret |-> r.ret]
  /\ UNCHANGED calls

CreateIdentity(a) ==
  /\ Began("createIdentity")
  /\ LET r == createIdentity(World, a, EmptyObj)
     IN /\ Commit(r.w)
        /\ last' = IF r.threw
                      THEN [op |-> "createIdentity", agentId |-> a, threw |-> TRUE]
                      ELSE [op |-> "createIdentity", agentId |-> a,
                            threw |-> FALSE, ret |-> r.ret]
  /\ UNCHANGED calls

IncrementTrustScore(a, amount) ==
  /\ Began("incrementTrustScore")
  /\ Commit(incrementTrustScore(World, a, amount))
  /\ last' = [op |-> "incrementTrustScore", agentId |-> a, amount |-> amount]
  /\ UNCHANGED calls

DecrementTrustScore(a, amount) ==
  /\ Began("decrementTrustScore")
  /\ LET r == decrementTrustScore(World, a, amount)
     IN /\ Commit(r.w)
        /\ last' = [op |-> "decrementTrustScore", agentId |-> a,
                    amount |-> amount, threw |-> r.threw]
  /\ UNCHANGED calls

RevokeIdentity(a) ==
  /\ Began("revokeIdentity")
  /\ LET r == revokeIdentity(World, a, "manual")
     IN /\ Commit(r.w)
        /\ last' = [op |-> "revokeIdentity", agentId |-> a, threw |-> r.threw]
  /\ UNCHANGED calls

RotateKeypair(a) ==
  /\ Began("rotateKeypair")
  /\ LET r == rotateKeypair(World, a)
     IN /\ Commit(r.w)
        /\ last' = [op |-> "rotateKeypair", agentId |-> a, threw |-> r.threw]
  /\ UNCHANGED calls

\* A millisecond passes.
Tick ==
  /\ now < MaxTime
  /\ now' = now + 1
  /\ UNCHANGED <<policies, identities, trustScores, identityStore, currentLog,
                 logExists, archivedLogs, lastHash, peerLastHash, journal, requireSig,
                 calls, last, nops>>

\* A new IdentitySystem over the identity store (constructor, lines 19-29).
Restart ==
  /\ Began("restart")
  /\ Commit(loadIdentities(World))
  /\ last' = [op |-> "restart"]
  /\ UNCHANGED calls

\* What one caller passes to execute: an action with its context.
ExecInputs ==
  {<<ReadX, EmptyObj>>, <<DeleteX, EmptyObj>>, <<Refund, EmptyObj>>,
   <<Refund, [amount |-> 700]>>}

\* No operation starts once MaxOps have (a started call may still finish).
CanStart == nops < MaxOps

\* The governed pipeline: execute calls whose tasks return or throw, and an
\* operator who lowers the agent's trust or revokes it in between.
Next ==
  \/ CanStart /\ \E in \in ExecInputs, executor \in BOOLEAN :
                   Execute(in[1], in[2], executor)
  \/ CanStart /\ DecrementTrustScore(ThisAgent, 60)
  \/ CanStart /\ RevokeIdentity(ThisAgent)
  \/ \E i \in 1..Len(calls) : TaskReturns(i)
  \/ \E i \in 1..Len(calls) : TaskThrows(i)

Spec == Init /\ [][Next]_vars

\* The identity registry driven directly, together with execute.
NextIdentity ==
  \/ CanStart /\ \E a \in Agents, c \in CredKinds : VerifyIdentity(a, c)
  \/ CanStart /\ \E a \in Agents : CreateIdentity(a)
  \/ CanStart /\ \E a \in Agents, amount \in Amounts : IncrementTrustScore(a, amount)
  \/ CanStart /\ \E a \in Agents, amount \in Amounts : DecrementTrustScore(a, amount)
  \/ CanStart /\ \E a \in Agents : RevokeIdentity(a)
  \/ CanStart /\ \E a \in Agents : RotateKeypair(a)
  \/ CanStart /\ Restart
  \/ CanStart /\ \E executor \in BOOLEAN : Execute(ReadX, EmptyObj, executor)
  \/ \E i \in 1..Len(calls) : TaskReturns(i)
  \/ \E i \in 1..Len(calls) : TaskThrows(i)

SpecIdentity == Init /\ [][NextIdentity]_vars

---------------------------------------------------------------------------
(* The policy engine on every policy of a bounded shape.                   *)

\* The sequences over S of length at most MaxRules.
RuleLists(S) == UNION {[1..n -> S] : n \in 0..MaxRules}

PatternPool == {<<"r", ":", "*">>, <<"*", ":", "x">>, STAR}

EscalatePool ==
  {StringRule(<<"d", ":", "*">>),
   [kind |-> "object", action |-> Refund,
    condition |-> [field |-> "amount", op |-> ">", value |-> 500]]}

\* Every permissions object over the pools; a list that is not declared is
\* a missing key.
PolicySpace ==
  UNION {{Obj(r, undef) : undef \in SUBSET {k \in DOMAIN r : r[k] = <<>>}} :
           r \in [escalate : RuleLists(EscalatePool),
                  deny : RuleLists(PatternPool),
                  allow : RuleLists(PatternPool)]}

InitPolicy ==
  \E policy \in PolicySpace :
    InitWith(ensureIdentity([EmptyWorld EXCEPT
                               !.policies = MapSet(EmptyObj, ThisAgent, policy)]),
             FALSE)

\* One decision per behaviour: checkPermission called directly for an agent
\* with or without a policy, or reached through execute.
NextPolicy ==
  \/ nops = 0 /\ \E a \in Agents, action \in Actions, context \in Contexts :
                   CheckPermission(a, action, context)
  \/ nops = 0 /\ \E in \in ExecInputs : Execute(in[1], in[2], FALSE)

SpecPolicy == InitPolicy /\ [][NextPolicy]_vars

---------------------------------------------------------------------------
(* The audit logger driven directly, one logger instance.                  *)

LogDecision(a, action, context, decision) ==
  /\ Began("logDecision")
  /\ Commit(logDecision(World, a, action, context, decision, 0))
  /\ last' = [op |-> "logDecision"]
  /\ UNCHANGED calls

LogAction(a, action, details, result) ==
  /\ Began("logAction")
  /\ Commit(logAction(World, a, action, details, result))
  /\ last' = [op |-> "logAction"]
  /\ UNCHANGED calls

LogEscalation(a, action, context) ==
  /\ Began("logEscalation")
  /\ Commit(logEscalation(World, a, action, context, "needs review",
                          "human-review"))
  /\ last' = [op |-> "logEscalation", escalationId |-> now]
  /\ UNCHANGED calls

\* ProductionAgent.resolveEscalation(escalationId, decision, notes, resolvedBy)
ResolveEscalation(escalationId, decision) ==
  /\ Began("resolveEscalation")
  /\ Commit(logEscalationResolution(World, escalationId, "human", decision,
                                    "notes"))
  /\ last' = [op |-> "resolveEscalation", escalationId |-> escalationId]
  /\ UNCHANGED calls

LogIdentityVerification(a, result) ==
  /\ Began("logIdentityVerification")
  /\ Commit(logIdentityVerification(World, a, "identity_check", result))
  /\ last' = [op |-> "logIdentityVerification"]
  /\ UNCHANGED calls

WriteDecision ==
  \E decision \in {allowResult(<<"r", ":", "*">>),
                   checkEscalation(<<StringRule(Refund)>>, Refund, EmptyObj)} :
    LogDecision("a1", ReadX, [password |-> "pw"], decision)

WriteAction ==
  \E result \in {[success |-> TRUE, output |-> "out"],
                 [success |-> FALSE, error |-> "err"]} :
    LogAction("a1", ReadX, EmptyObj, result)

WriteEscalation == LogEscalation("a2", Refund, [amount |-> 700])

WriteResolution == ResolveEscalation(0, "approved")

WriteVerification ==
  LogIdentityVerification("a2", [verified |-> FALSE,
                                 reason |-> "Agent identity not found",
                                 trustScore |-> 0])

NextAudit ==
  \/ CanStart /\ WriteDecision
  \/ CanStart /\ WriteAction
  \/ CanStart /\ WriteEscalation
  \/ CanStart /\ WriteResolution
  \/ CanStart /\ WriteVerification
  \/ Tick

SpecAudit == Init /\ [][NextAudit]_vars

\* Someone with write access to the log file changes one field of one line.
Flip(v, a, b) == IF v = a THEN b ELSE a

TamperedValue(entry, k) ==
  CASE k = "type" -> Flip(entry[k], "agent_action", "policy_decision")
    [] k \in {"timestamp", "timestampUnix", "durationMs", "escalationId"} ->
         entry[k] + 1
    [] k = "agentId" -> Flip(entry[k], "a1", "a2")
    [] k = "action" -> Flip(entry[k], ReadX, DeleteX)
    [] k \in {"context", "details"} -> MapSet(entry[k], "edited", TRUE)
    [] k = "decision" ->
         IF Has(entry[k], "allowed")
           THEN [entry[k] EXCEPT !.allowed = ~@]
           ELSE [str |-> Flip(entry[k].str, "approved", "denied")]
    [] k = "result" ->
         IF Has(entry[k], "success")
           THEN [entry[k] EXCEPT !.success = ~@]
           ELSE [entry[k] EXCEPT !.verified = ~@]
    [] k = "previousHash" -> Flip(entry[k], Null, <<"sha256", EmptyObj>>)
    [] k = "hash" -> <<"sha256", EmptyObj>>
    [] OTHER -> "edited"

Tamper(i, k) ==
  /\ last.op # "tamper"
  /\ currentLog' = [currentLog EXCEPT ![i] =
                      [currentLog[i] EXCEPT ![k] = TamperedValue(currentLog[i], k)]]
  /\ last' = [op |-> "tamper", line |-> i, field |-> k]
  /\ nops' = nops + 1
  /\ UNCHANGED <<policies, identities, trustScores, identityStore, logExists,
                 archivedLogs, lastHash, peerLastHash, journal, requireSig, now, calls>>

Untouched == last.op # "tamper" /\ CanStart

NextTamper ==
  \/ Untouched /\ WriteDecision
  \/ Untouched /\ WriteAction
  \/ Untouched /\ WriteEscalation
  \/ Untouched /\ WriteResolution
  \/ Untouched /\ WriteVerification
  \/ \E i \in 1..Len(currentLog) : \E k \in DOMAIN currentLog[i] : Tamper(i, k)

SpecTamper == Init /\ [][NextTamper]_vars

---------------------------------------------------------------------------
(* Properties.                                                             *)

\* The step just taken is operation op.
Step(op) == nops' = nops + 1 /\ last'.op = op

\* The lines the step appended to the audit log.
NewLines == SubSeq(journal', Len(journal) + 1, Len(journal'))

Revoked(ids, a) == Has(ids, a) /\ ids[a].status = "revoked"

\* C1: in every execute call the task is invoked at most once, and only if
\* that call's verifyIdentity returned verified and its policy decision was
\* allowed without escalation; on identity failure, escalation or denial the
\* task is never invoked.
C1_TaskOnlyWhenVerifiedAndAllowed ==
  \A i \in 1..Len(calls) :
    LET c == calls[i]
    IN /\ c.invoked <= 1
       /\ c.invoked = 1 =>
            /\ c.identityCheck.verified
            /\ Has(c, "policyCheck")
            /\ c.policyCheck.allowed
            /\ ~c.policyCheck.requiresEscalation
       /\ ~c.identityCheck.verified => c.invoked = 0
       /\ (Has(c, "policyCheck") /\ (c.policyCheck.requiresEscalation
                                      \/ ~c.policyCheck.allowed))
            => c.invoked = 0

\* One call ran its task while another, given a task too, was denied by
\* policy and a third was escalated.
C1_Witness ==
  /\ \E i \in 1..Len(calls) : calls[i].invoked = 1
  /\ \E i \in 1..Len(calls) :
       /\ calls[i].executor /\ calls[i].invoked = 0
       /\ Has(calls[i].ret, "policyDenied")
  /\ \E i \in 1..Len(calls) :
       /\ calls[i].executor /\ calls[i].invoked = 0
       /\ Has(calls[i].ret, "requiresEscalation")

\* C6: every agent's trust score is an integer in 0..100.
C6_TrustScoreInRange ==
  /\ \A a \in DOMAIN trustScores : trustScores[a] \in 0..100
  /\ \A a \in DOMAIN identities : identities[a].trustScore \in 0..100

\* A decrement by a negative amount has left a score above 100.
C6_Witness ==
  /\ last.op = "decrementTrustScore"
  /\ last.amount < 0
  /\ trustScores[last.agentId] > 100

\* C7: once an identity is revoked it stays revoked, and every later
\* verifyIdentity for it returns verified = false.
C7_RevocationTerminal ==
  [][\A a \in Agents :
       Revoked(identities, a) =>
         /\ Revoked(identities', a)
         /\ (Step("verifyIdentity") /\ last'.agentId = a) => ~last'.ret.verified
         /\ (Step("execute") /\ a = ThisAgent)
              => ~calls'[Len(calls')].identityCheck.verified]_vars

\* A revoked identity whose score was raised again, whose keys were rotated
\* and which was then refused.
C7_Witness ==
  /\ last.op = "verifyIdentity"
  /\ Revoked(identities, last.agentId)
  /\ ~last.ret.verified
  /\ trustScores[last.agentId] > 0
  /\ Has(identities[last.agentId], "keyRotatedAt")

\* C8: when decrementTrustScore brings an existing agent's score to exactly
\* 0, the identity is revoked by the end of the operation and an
\* identity_verification entry recording the revocation is appended.
C8_ZeroRevokes ==
  [][\A a \in Agents :
       (/\ \/ Step("decrementTrustScore") /\ last'.agentId = a
           \/ Step("taskThrows") /\ a = ThisAgent
           \/ /\ Step("verifyIdentity") /\ last'.agentId = a
              /\ last'.ret.reason = "Invalid signature"
        /\ Has(identities, a)
        /\ trustScores'[a] = 0)
       => /\ Revoked(identities', a)
          /\ \E i \in 1..Len(NewLines) :
               /\ NewLines[i].type = "identity_verification"
               /\ NewLines[i].agentId = a
               /\ NewLines[i].verificationType = "revocation"]_vars

\* A decrement has just taken an active identity from a positive score to 0.
C8_Witness ==
  /\ last.op = "decrementTrustScore"
  /\ last.amount > 0
  /\ Has(identities, last.agentId)
  /\ trustScores[last.agentId] = 0
  /\ Len(journal) = 1
  /\ journal[1].verificationType = "revocation"

Decided == \/ last.op = "checkPermission"
           \/ last.op = "execute" /\ Has(calls[last.call], "policyCheck")
DecidedAgent == IF last.op = "checkPermission" THEN last.agentId ELSE ThisAgent
DecidedAction ==
  IF last.op = "checkPermission" THEN last.action ELSE calls[last.call].action
DecidedContext ==
  IF last.op = "checkPermission" THEN last.context ELSE calls[last.call].context
Decision ==
  IF last.op = "checkPermission" THEN last.ret ELSE calls[last.call].policyCheck

\* Some rule of the named list of the agent's policy matches the action.
SomeRuleMatches(list) ==
  /\ Has(policies, DecidedAgent)
  /\ Has(policies[DecidedAgent], list)
  /\ \E i \in 1..Len(policies[DecidedAgent][list]) :
       IF list = "escalate"
         THEN escalateRuleMatches(policies[DecidedAgent][list][i],
                                  DecidedAction, DecidedContext)
         ELSE matchesPattern(DecidedAction, policies[DecidedAgent][list][i])

\* C2: checkPermission decides by the first stage that matches in the order
\* escalate, deny, allow: an escalate match escalates whatever else matches,
\* a deny match without escalate match denies even if an allow rule matches,
\* and an allow match alone allows.
C2_StagePrecedence ==
  Decided =>
    /\ SomeRuleMatches("escalate")
         => Decision.requiresEscalation /\ ~Decision.allowed
    /\ (~SomeRuleMatches("escalate") /\ SomeRuleMatches("deny"))
         => /\ ~Decision.allowed /\ ~Decision.requiresEscalation
            /\ Decision.reason.msg = "Action explicitly denied by policy rule"
    /\ (/\ ~SomeRuleMatches("escalate") /\ ~SomeRuleMatches("deny")
        /\ SomeRuleMatches("allow"))
         => Decision.allowed /\ ~Decision.requiresEscalation

\* An action matching a deny and an allow rule, and no escalate rule, was
\* denied.
C2_Witness ==
  /\ Decided
  /\ ~SomeRuleMatches("escalate")
  /\ SomeRuleMatches("deny")
  /\ SomeRuleMatches("allow")
  /\ ~Decision.allowed

\* C3: allowed = true only with a policy loaded, an allow rule matching and
\* no deny or escalate rule matching; without policy, or without any
\* matching rule, the result is allowed = false, requiresEscalation = false.
C3_FailSecure ==
  Decided =>
    /\ Decision.allowed =>
         /\ Has(policies, DecidedAgent)
         /\ SomeRuleMatches("allow")
         /\ ~SomeRuleMatches("deny")
         /\ ~SomeRuleMatches("escalate")
    /\ (\/ ~Has(policies, DecidedAgent)
        \/ /\ ~SomeRuleMatches("escalate") /\ ~SomeRuleMatches("deny")
           /\ ~SomeRuleMatches("allow"))
         => ~Decision.allowed /\ ~Decision.requiresEscalation

\* An agent with a policy none of whose rules matches was refused by default.
C3_Witness ==
  /\ Decided
  /\ Has(policies, DecidedAgent)
  /\ Has(policies[DecidedAgent], "allow")
  /\ Len(policies[DecidedAgent].allow) > 0
  /\ ~SomeRuleMatches("escalate")
  /\ ~SomeRuleMatches("deny")
  /\ ~SomeRuleMatches("allow")
  /\ ~Decision.allowed

\* The policy_decision lines among the new lines.
NewDecisionLines ==
  {i \in 1..Len(NewLines) : NewLines[i].type = "policy_decision"}

\* C10: every call to checkPermission appends exactly one policy_decision
\* entry, whichever stage decides, and the entry's decision.allowed and
\* decision.requiresEscalation are the values returned.
C10_OneDecisionEntry ==
  [][(Step("checkPermission") \/ Step("execute")) =>
       IF Decided'
         THEN /\ Cardinality(NewDecisionLines) = 1
              /\ \A i \in NewDecisionLines :
                   /\ NewLines[i].agentId = DecidedAgent'
                   /\ NewLines[i].action = DecidedAction'
                   /\ NewLines[i].decision.allowed = Decision'.allowed
                   /\ NewLines[i].decision.requiresEscalation
                        = Decision'.requiresEscalation
         ELSE NewDecisionLines = {}]_vars

\* A denial by an explicit deny rule has just been logged.
C10_Witness ==
  /\ last.op = "checkPermission"
  /\ ~last.ret.allowed
  /\ last.ret.reason.msg = "Action explicitly denied by policy rule"
  /\ Last(journal).type = "policy_decision"
  /\ ~Last(journal).decision.allowed

\* The files of the log: the rotated ones and the active one.
Segments == {archivedLogs[t] : t \in DOMAIN archivedLogs} \cup {currentLog}

\* SHA-256 over the six fields the entry carries.
H6(e) ==
  <<"sha256", [k \in {"type", "timestamp", "agentId", "action", "decision",
                      "previousHash"} \cap DOMAIN e |-> e[k]]>>

\* C4: after any writes and rotations by one logger, in every segment the
\* first entry's previousHash is null, each later entry's previousHash is
\* the hash of the entry before it, each entry's hash is
\* H(type, timestamp, agentId, action, decision, previousHash), and
\* verifyChain returns valid = true.
C4_ChainInvariant ==
  \A seg \in Segments :
    /\ \A i \in 1..Len(seg) :
         /\ Has(seg[i], "previousHash") /\ Has(seg[i], "hash")
         /\ seg[i].previousHash = IF i = 1 THEN Null ELSE seg[i - 1].hash
         /\ seg[i].hash = H6(seg[i])
    /\ verifyChain(seg).valid
    /\ verifyChain(seg).entries = Len(seg)

\* A rotated segment and an active segment begun after the rotation, with
\* entries of several types.
C4_Witness ==
  /\ DOMAIN archivedLogs # {}
  /\ Len(currentLog) >= 2
  /\ currentLog[1].type # currentLog[2].type
  /\ \E t \in DOMAIN archivedLogs :
       /\ Len(archivedLogs[t]) >= 2
       /\ archivedLogs[t][1].type = "escalation_resolution"

\* C5: changing any single logged field of any one entry of a written
\* segment makes verifyChain return valid = false and report that entry's
\* position.
C5_TamperEvident ==
  last.op = "tamper" =>
    /\ ~verifyChain(currentLog).valid
    /\ verifyChain(currentLog).line = last.line

\* The result of a logged action was flipped and the chain still verifies.
C5_Witness ==
  /\ last.op = "tamper"
  /\ last.field = "result"
  /\ currentLog[last.line].type = "agent_action"
  /\ currentLog[last.line].result.success
  /\ verifyChain(currentLog).valid

---------------------------------------------------------------------------
(* verifyIdentity at every trust level: an operator lowers scores by large  *)
(* steps, revokes and registers agents between verifications.              *)

Penalties == {45, 90}

NextVerify ==
  \/ CanStart /\ \E a \in Agents, c \in CredKinds : VerifyIdentity(a, c)
  \/ CanStart /\ \E a \in Agents, amount \in Penalties :
                   DecrementTrustScore(a, amount)
  \/ CanStart /\ \E a \in Agents : RevokeIdentity(a)
  \/ CanStart /\ \E a \in Agents : CreateIdentity(a)

SpecVerify == Init /\ [][NextVerify]_vars

\* The identity_verification lines among the new lines.
NewVerificationLines ==
  {i \in 1..Len(NewLines) : NewLines[i].type = "identity_verification"}

\* The call failed on its signature and the penalty took the score to zero.
SignatureFailureZeroes ==
  /\ last'.ret.reason = "Invalid signature"
  /\ getTrustScore(World', last'.agentId) = 0

\* C11, as the code has it: a call to verifyIdentity appends exactly one
\* identity_verification entry, carrying the result it returns, on every
\* path but one: when an invalid signature's penalty takes the score to 0
\* the call appends two, the revocation entry and then the
\* signature_verification entry.
C11_OneVerificationEntryUnlessRevoking ==
  [][Step("verifyIdentity") =>
       /\ Len(NewLines) = Cardinality(NewVerificationLines)
       /\ \A i \in NewVerificationLines : NewLines[i].agentId = last'.agentId
       /\ IF SignatureFailureZeroes
            THEN /\ Len(NewLines) = 2
                 /\ NewLines[1].verificationType = "revocation"
                 /\ NewLines[2].verificationType = "signature_verification"
            ELSE Len(NewLines) = 1
       /\ Last(NewLines).result = last'.ret]_vars

\* C11 as stated: every call to verifyIdentity appends exactly one
\* identity_verification entry, on every path.
C11_OneVerificationEntry ==
  [][Step("verifyIdentity") => Cardinality(NewVerificationLines) = 1]_vars

\* A forged signature was presented for an active agent at score 10: the
\* call revoked the identity and left two entries.
C11_Witness ==
  /\ last.op = "verifyIdentity"
  /\ last.ret.reason = "Invalid signature"
  /\ last.ret.trustScore = 0
  /\ Revoked(identities, last.agentId)
  /\ Len(journal) = 2
  /\ journal[1].verificationType = "revocation"
  /\ journal[2].verificationType = "signature_verification"

---------------------------------------------------------------------------
(* matchesPattern on every action and pattern of a bounded length.         *)

Alphabet == {"r", ":", "x", "*"}

\* The strings over the alphabet of length at most MaxLen.
Strings == UNION {[1..n -> Alphabet] : n \in 0..MaxLen}

InitPattern ==
  /\ \E action \in Strings, pattern \in Strings :
       last = [op |-> "input", action |-> action, pattern |-> pattern]
  /\ LET w == ensureIdentity(EmptyWorld)
     IN /\ policies = w.policies
        /\ identities = w.identities
        /\ trustScores = w.trustScores
        /\ identityStore = w.identityStore
        /\ currentLog = w.currentLog
        /\ logExists = w.logExists
        /\ archivedLogs = w.archivedLogs
        /\ lastHash = w.lastHash
        /\ peerLastHash = w.peerLastHash
        /\ journal = w.journal
        /\ now = w.now
  /\ requireSig = FALSE
  /\ calls = <<>>
  /\ nops = 0

MatchesPattern ==
  /\ last.op = "input"
  /\ last' = [op |-> "matchesPattern", action |-> last.action,
              pattern |-> last.pattern,
              ret |-> matchesPattern(last.action, last.pattern)]
  /\ nops' = nops + 1
  /\ UNCHANGED <<policies, identities, trustScores, identityStore, currentLog,
                 logExists, archivedLogs, lastHash, peerLastHash, journal, requireSig, now,
                 calls>>

NextPattern == MatchesPattern

SpecPattern == InitPattern /\ [][NextPattern]_vars

\* s begins with q / s ends with q, position by position.
BeginsWith(s, q) ==
  Len(q) <= Len(s) /\ \A i \in 1..Len(q) : s[i] = q[i]
FinishesWith(s, q) ==
  Len(q) <= Len(s) /\ \A i \in 1..Len(q) : s[Len(s) - Len(q) + i] = q[i]

\* p without its last / first character.
WithoutLast(p) == [i \in 1..(Len(p) - 1) |-> p[i]]
WithoutFirst(p) == [i \in 1..(Len(p) - 1) |-> p[i + 1]]

EndsInStar(p) == Len(p) > 0 /\ p[Len(p)] = "*"
BeginsInStar(p) == Len(p) > 0 /\ p[1] = "*"

ReadStar == <<"r", "e", "a", "d", ":", "*">>
ReadCustomerData ==
  <<"r", "e", "a", "d", ":", "c", "u", "s", "t", "o", "m", "e", "r", "_",
    "d", "a", "t", "a">>
WriteX == <<"w", "r", "i", "t", "e", ":", "x">>
StarPublic == <<"*", ":", "p", "u", "b", "l", "i", "c">>
AnythingPublic ==
  <<"a", "n", "y", "t", "h", "i", "n", "g", ":", "p", "u", "b", "l", "i", "c">>
DeleteColon == <<"d", "e", "l", "e", "t", "e", ":">>

\* C12: matchesPattern(action, pattern) is true exactly when pattern equals
\* action, or pattern is "*", or pattern ends with "*" and action starts
\* with the pattern without its last character, or pattern does not end
\* with "*" but starts with "*" and action ends with the pattern without
\* its first character; "read:*" matches "read:customer_data" and not
\* "write:x", "*:public" matches "anything:public", and "delete:*" matches
\* delete:<resource> for every resource.
C12_MatchesPattern ==
  last.op = "matchesPattern" =>
    /\ last.ret <=>
         \/ last.pattern = last.action
         \/ last.pattern = <<"*">>
         \/ /\ EndsInStar(last.pattern)
            /\ BeginsWith(last.action, WithoutLast(last.pattern))
         \/ /\ ~EndsInStar(last.pattern)
            /\ BeginsInStar(last.pattern)
            /\ FinishesWith(last.action, WithoutFirst(last.pattern))
    /\ matchesPattern(ReadCustomerData, ReadStar)
    /\ ~matchesPattern(WriteX, ReadStar)
    /\ matchesPattern(AnythingPublic, StarPublic)
    /\ matchesPattern(DeleteColon \o last.action, DeleteColon \o <<"*">>)

\* A pattern with a wildcard at both ends was taken as a prefix pattern and
\* refused an action that its suffix reading would accept.
C12_Witness ==
  /\ last.op = "matchesPattern"
  /\ last.pattern = <<"*", ":", "*">>
  /\ last.action = <<"r", ":", "*">>
  /\ ~last.ret

---------------------------------------------------------------------------
(* execute: what each outcome leaves in the log and in the registry.       *)

\* The call the step has just started, and the new lines of a given type.
NewCall == calls'[Len(calls')]
NewLinesOfType(type) == {i \in 1..Len(NewLines) : NewLines[i].type = type}

\* The step left the agent's trust score and identity status as they were.
TrustAndStatusUnchanged ==
  /\ trustScores' = trustScores
  /\ identities'[ThisAgent].status = identities[ThisAgent].status
  /\ identities'[ThisAgent].trustScore = identities[ThisAgent].trustScore

\* C13: when the policy decision requires escalation, execute appends
\* exactly one escalation entry with status pending and returns
\* success = false, requiresEscalation = true, the reason and the
\* escalationId of that entry; when the decision is a plain denial it
\* returns success = false, policyDenied = true and the denial reason; in
\* both cases no agent_action entry is written and the agent's trust score
\* and identity status are unchanged.
C13_EscalationAndDenial ==
  [][(Step("execute") /\ Has(NewCall, "policyCheck")) =>
       LET d == NewCall.policyCheck
       IN /\ d.requiresEscalation =>
               /\ Cardinality(NewLinesOfType("escalation")) = 1
               /\ \A i \in NewLinesOfType("escalation") :
                    /\ NewLines[i].status = "pending"
                    /\ NewLines[i].agentId = ThisAgent
                    /\ NewLines[i].action = NewCall.action
                    /\ NewCall.ret.escalationId = NewLines[i].timestampUnix
               /\ NewCall.state = "returned"
               /\ ~NewCall.ret.success
               /\ NewCall.ret.requiresEscalation
               /\ NewCall.ret.reason = d.reason
               /\ NewLinesOfType("agent_action") = {}
               /\ TrustAndStatusUnchanged
          /\ (~d.requiresEscalation /\ ~d.allowed) =>
               /\ NewCall.state = "returned"
               /\ ~NewCall.ret.success
               /\ NewCall.ret.policyDenied
               /\ NewCall.ret.error = d.reason
               /\ NewLinesOfType("escalation") = {}
               /\ NewLinesOfType("agent_action") = {}
               /\ TrustAndStatusUnchanged]_vars

\* A refund of 700 has just been escalated, after a delete was denied.
C13_Witness ==
  /\ last.op = "execute"
  /\ Has(calls[last.call], "ret")
  /\ Has(calls[last.call].ret, "requiresEscalation")
  /\ Last(journal).type = "escalation"
  /\ Last(journal).status = "pending"
  /\ \E i \in 1..Len(calls) :
       Has(calls[i], "ret") /\ Has(calls[i].ret, "policyDenied")
  /\ trustScores[ThisAgent] = 100

\* C14: when identity verification fails inside execute, execute returns
\* success = false citing the identity failure, checkPermission is not
\* called (no policy_decision entry), no task runs and no agent_action
\* entry is written, and the identity_verification entry of the call is in
\* the log.
C14_IdentityFailureStopsExecute ==
  [][(Step("execute") /\ ~NewCall.identityCheck.verified) =>
       /\ NewCall.state = "returned"
       /\ ~NewCall.ret.success
       /\ NewCall.ret.error
            = "Identity verification failed: " \o NewCall.identityCheck.reason
       /\ ~Has(NewCall, "policyCheck")
       /\ NewCall.invoked = 0
       /\ NewLinesOfType("policy_decision") = {}
       /\ NewLinesOfType("agent_action") = {}
       /\ \E i \in NewLinesOfType("identity_verification") :
            /\ NewLines[i].agentId = ThisAgent
            /\ NewLines[i].result = NewCall.identityCheck]_vars

\* An execute with a task was refused for low trust and another for a
\* revoked identity.
C14_Witness ==
  /\ \E i \in 1..Len(calls) :
       /\ calls[i].executor
       /\ calls[i].identityCheck.reason = "Trust score too low for operation"
  /\ last.op = "execute"
  /\ calls[last.call].identityCheck.reason = "Agent identity has been revoked"
  /\ Last(journal).type = "identity_verification"
  /\ ~Last(journal).result.verified

---------------------------------------------------------------------------
(* Runs of one allowed action with a task: up to MaxCalls calls, which may *)
(* overlap while their tasks are awaited, and an operator who may revoke   *)
(* the agent in between.                                                   *)

NextRuns ==
  \/ Len(calls) < MaxCalls /\ Execute(ReadX, EmptyObj, TRUE)
  \/ \E i \in 1..Len(calls) : TaskReturns(i)
  \/ \E i \in 1..Len(calls) : TaskThrows(i)
  \/ CanStart /\ RevokeIdentity(ThisAgent)

SpecRuns == Init /\ [][NextRuns]_vars

\* The calls whose task threw / returned.
FailedRuns ==
  {i \in 1..Len(calls) : /\ calls[i].state = "returned"
                         /\ calls[i].invoked = 1
                         /\ ~calls[i].ret.success}
SucceededRuns ==
  {i \in 1..Len(calls) : /\ calls[i].state = "returned"
                         /\ calls[i].invoked = 1
                         /\ calls[i].ret.success}

\* The operator has revoked the agent.
OperatorRevoked ==
  \E i \in 1..Len(journal) :
    /\ journal[i].type = "identity_verification"
    /\ journal[i].result.reason = "Identity revoked: manual"

\* What a throwing task leaves behind, the trust score apart.
TaskFailureRecorded ==
  LET c == calls'[last'.call]
  IN /\ c.state = "returned"
     /\ ~c.ret.success
     /\ c.ret.error = "err"
     /\ Cardinality(NewLinesOfType("agent_action")) = 1
     /\ \A i \in NewLinesOfType("agent_action") :
          /\ ~NewLines[i].result.success
          /\ NewLines[i].result.error = "err"
          /\ NewLines[i].action = c.action

SucceededNow ==
  \/ Step("taskReturns")
  \/ /\ Step("execute") /\ NewCall.state = "returned"
     /\ NewCall.ret.success

\* The call the step completed.
DoneCall == calls'[last'.call]

\* What a successful action leaves behind, the trust score apart.
SuccessRecorded ==
  /\ DoneCall.ret.success
  /\ Cardinality(NewLinesOfType("agent_action")) = 1
  /\ \A i \in NewLinesOfType("agent_action") :
       NewLines[i].result.success /\ NewLines[i].action = DoneCall.action

---------------------------------------------------------------------------
(* Conditional escalation: a policy whose first escalate rule is           *)
(* {action, condition}, followed by other rules.                           *)

Operators == {">", "<", ">=", "<=", "==", "!=", "="}

ConditionalRule(pattern, op) ==
  [kind |-> "object", action |-> pattern,
   condition |-> [field |-> "amount", op |-> op, value |-> 500]]

\* The escalate rules after the first, the deny lists and the contexts.
LaterRules ==
  {<<>>, <<StringRule(Refund)>>,
   <<[kind |-> "object", action |-> STAR,
      condition |-> [field |-> "amount", op |-> "<", value |-> 400]]>>}
DenyLists == {<<>>, <<Refund>>}
ConditionContexts ==
  {EmptyObj, [amount |-> 300], [amount |-> 500], [amount |-> 700],
   [total |-> 700]}

InitCondition ==
  \E pattern \in {Refund, STAR, <<"r", ":", "*">>}, op \in Operators,
     later \in LaterRules, deny \in DenyLists :
    InitWith(ensureIdentity(
               [EmptyWorld EXCEPT
                  !.policies = MapSet(EmptyObj, ThisAgent,
                     [escalate |-> <<ConditionalRule(pattern, op)>> \o later,
                      deny |-> deny,
                      allow |-> <<STAR>>])]),
             FALSE)

NextCondition ==
  nops = 0 /\ \E action \in {Refund, ReadX}, context \in ConditionContexts :
                CheckPermission(ThisAgent, action, context)

SpecCondition == InitCondition /\ [][NextCondition]_vars

\* '<field> <op> <value>' on a context, for the six comparison operators.
ConditionHolds(condition, context) ==
  /\ condition.field \in DOMAIN context
  /\ LET v == context[condition.field]
     IN \/ condition.op = ">" /\ v > condition.value
        \/ condition.op = "<" /\ v < condition.value
        \/ condition.op = ">=" /\ v >= condition.value
        \/ condition.op = "<=" /\ v <= condition.value
        \/ condition.op = "==" /\ v = condition.value
        \/ condition.op = "!=" /\ v # condition.value

\* The first escalate rule of the agent's policy.
FirstRule == policies[ThisAgent].escalate[1]

\* The decision of the same call under the policy without its first
\* escalate rule.
DecisionOfTheRest ==
  checkPermission([World EXCEPT !.policies[ThisAgent].escalate = Tail(@)],
                  ThisAgent, last.action, last.context).ret

\* C17: a conditional escalate rule {action, condition} triggers escalation
\* exactly when its action pattern matches the action and its condition
\* evaluates true on the context; when the condition is false or the field
\* is absent, evaluation continues with the remaining escalate rules and
\* then the deny and allow stages; with 'amount > 500', amount 300 does not
\* escalate and amount 700 does.
C17_ConditionalEscalation ==
  last.op = "checkPermission" =>
    LET triggers == /\ matchesPattern(last.action, FirstRule.action)
                    /\ ConditionHolds(FirstRule.condition, last.context)
    IN /\ triggers => /\ last.ret.requiresEscalation
                       /\ ~last.ret.allowed
                       /\ last.ret.escalationRule = FirstRule
       /\ ~triggers => last.ret = DecisionOfTheRest
       /\ (/\ FirstRule = ConditionalRule(Refund, ">")
           /\ Len(policies[ThisAgent].escalate) = 1
           /\ last.action = Refund) =>
            /\ last.context = [amount |-> 300] => ~last.ret.requiresEscalation
            /\ last.context = [amount |-> 700] => last.ret.requiresEscalation

\* A refund of 300 under 'amount > 500' was not escalated and went on to
\* the allow stage.
C17_Witness ==
  /\ last.op = "checkPermission"
  /\ FirstRule = ConditionalRule(Refund, ">")
  /\ last.action = Refund
  /\ last.context = [amount |-> 300]
  /\ policies[ThisAgent].deny = <<>>
  /\ last.ret.allowed
  /\ ~last.ret.requiresEscalation

---------------------------------------------------------------------------
(* One logger over several rotations: up to MaxWrites entries, read back   *)
(* by query.                                                               *)

Filters ==
  {EmptyObj, [agentId |-> "a1"], [action |-> Refund], [allowed |-> TRUE],
   [startTime |-> 1],
   [agentId |-> "a2", type |-> "escalation", startTime |-> 0, endTime |-> 1]}

\* A read leaves everything but its own result as it was.
Reads(op, more) ==
  /\ last' = [k \in {"op", "ret"} \cup DOMAIN more |->
                IF k = "op" THEN op ELSE IF k = "ret" THEN more.ret ELSE more[k]]
  /\ UNCHANGED <<policies, identities, trustScores, identityStore, currentLog,
                 logExists, archivedLogs, lastHash, peerLastHash, journal, requireSig, now,
                 calls, nops>>

\* query has no throw statement and reads only files that readdirSync
\* has just listed.
Query(filters) ==
  Reads("query", [filters |-> filters, ret |-> query(World, filters),
                  threw |-> FALSE])

CanWrite == Len(journal) < MaxWrites

NextRotate ==
  \/ CanWrite /\ WriteDecision
  \/ CanWrite /\ WriteEscalation
  \/ Tick
  \/ \E filters \in Filters : Query(filters)

SpecRotate == Init /\ [][NextRotate]_vars

\* The entries on disk, file after file.
OnDisk == linesOf(getLogFiles(World))

\* s is an initial part of t.
IsPrefix(s, t) == Len(s) <= Len(t) /\ SubSeq(t, 1, Len(s)) = s

\* C18: the audit log is append-only: after any operation the entries
\* written before, taken across archived and active segments in order, are
\* unchanged and any new entries come after them.
C18_AppendOnly ==
  [][IsPrefix(OnDisk, OnDisk')]_vars

\* A rotation has replaced the file of an earlier rotation of the same
\* millisecond: entries that were written are in no file.
C18_Witness ==
  /\ Len(OnDisk) < Len(journal)
  /\ Cardinality(DOMAIN archivedLogs) = 1
  /\ verifyChain(currentLog).valid

\* The step is a write that found the active file above the threshold.
RotatingWrite == Len(journal') = Len(journal) + 1 /\ shouldRotate(World)

\* C19: when a write finds the active segment above the size threshold,
\* the segment is archived with its entries intact, lastHash is reset, the
\* entry being written becomes the first entry of a fresh segment with
\* previousHash = null, and both the archived segment and the new active
\* segment verify valid.
C19_Rotation ==
  [][RotatingWrite =>
       /\ now \in DOMAIN archivedLogs'
       /\ archivedLogs'[now] = currentLog
       /\ \A t \in DOMAIN archivedLogs' \ {now} :
            t \in DOMAIN archivedLogs /\ archivedLogs'[t] = archivedLogs[t]
       /\ currentLog' = <<Last(journal')>>
       /\ currentLog'[1].previousHash = Null
       /\ lastHash' = currentLog'[1].hash
       /\ verifyChain(archivedLogs'[now]).valid
       /\ verifyChain(archivedLogs'[now]).entries = Len(currentLog)
       /\ verifyChain(currentLog').valid]_vars

\* A write has just rotated a full segment and begun a fresh one.
C19_Witness ==
  /\ Len(journal) = RotationSize + 2
  /\ Len(currentLog) = 1
  /\ currentLog[1].previousHash = Null
  /\ \E t \in DOMAIN archivedLogs :
       /\ Len(archivedLogs[t]) = RotationSize + 1
       /\ archivedLogs[t][2].previousHash = archivedLogs[t][1].hash

\* The entry satisfies every filter supplied.
Satisfies(entry, filters) ==
  /\ "agentId" \in DOMAIN filters
       => "agentId" \in DOMAIN entry /\ entry.agentId = filters.agentId
  /\ "type" \in DOMAIN filters => entry.type = filters.type
  /\ "action" \in DOMAIN filters
       => "action" \in DOMAIN entry /\ entry.action = filters.action
  /\ "startTime" \in DOMAIN filters => filters.startTime <= entry.timestampUnix
  /\ "endTime" \in DOMAIN filters => entry.timestampUnix <= filters.endTime
  /\ "allowed" \in DOMAIN filters
       => /\ "decision" \in DOMAIN entry
          /\ "allowed" \in DOMAIN entry.decision
          /\ entry.decision.allowed = filters.allowed

\* sub is seq with some elements left out.
RECURSIVE IsSubsequence(_, _)
IsSubsequence(sub, seq) ==
  IF sub = <<>> THEN TRUE
  ELSE IF seq = <<>> THEN FALSE
  ELSE IF Head(sub) = Head(seq) THEN IsSubsequence(Tail(sub), Tail(seq))
  ELSE IsSubsequence(sub, Tail(seq))

\* The number of entries, in the rotated files and in the active file, that
\* satisfy the filters.
SatisfyingOnDisk(filters) ==
  Cardinality({p \in UNION {{t} \X (1..Len(archivedLogs[t])) :
                              t \in DOMAIN archivedLogs} :
                 Satisfies(archivedLogs[p[1]][p[2]], filters)})
  + Cardinality({i \in 1..Len(currentLog) : Satisfies(currentLog[i], filters)})

---------------------------------------------------------------------------
(* Reading a log whose file is not there.                                  *)

VerifyChain ==
  Reads("verifyChain", [missing |-> ~logExists, ret |-> verifyChainActive(World)])

VerifyChainRotated(t) ==
  Reads("verifyChain", [missing |-> t \notin DOMAIN archivedLogs,
                        ret |-> verifyChainRotated(World, t)])

NextMissing ==
  \/ CanStart /\ WriteDecision
  \/ CanStart /\ WriteEscalation
  \/ Tick
  \/ \E filters \in Filters : Query(filters)
  \/ VerifyChain
  \/ \E t \in 0..MaxTime : VerifyChainRotated(t)

SpecMissing == Init /\ [][NextMissing]_vars

\* No file audit-*.jsonl is in the log directory.
NoLogFile == ~logExists /\ DOMAIN archivedLogs = {}

\* C21 (as the code has it): verifyChain of a file that does not exist
\* returns valid=false with the error "Log file not found", and of a file
\* that exists never that error; query, when no log file exists, returns an
\* empty list without an error.
C21_MissingFileVerifyErrorQueryEmpty ==
  /\ last.op = "verifyChain"
       => (last.missing <=> last.ret = LogFileNotFound)
  /\ last.op = "query" /\ NoLogFile
       => ~last.threw /\ last.ret = <<>>

\* C21: when the audit storage for the requested segment is missing at
\* verify or query time, both verifyChain and query report a specific error
\* instead of returning a valid or an empty result.
C21_MissingStorageReported ==
  /\ last.op = "verifyChain" /\ last.missing
       => ~last.ret.valid /\ Has(last.ret, "error")
  /\ last.op = "query" /\ NoLogFile
       => last.threw

\* A query has run while the log directory holds no file.
C21_Witness ==
  /\ last.op = "query"
  /\ NoLogFile
  /\ last.filters = EmptyObj
  /\ last.ret = <<>>
  /\ now = MaxTime

---------------------------------------------------------------------------
(* A log file in which one line has been replaced by text that is not an   *)
(* entry: text that is not JSON, or the JSON text {}.                      *)

BadLines == {NotJson, EmptyObj}

\* The line is an entry some log* method wrote.
WellFormed(line) == Has(line, "type") /\ Has(line, "hash")

Intact ==
  /\ \A i \in 1..Len(currentLog) : WellFormed(currentLog[i])
  /\ \A t \in DOMAIN archivedLogs :
       \A i \in 1..Len(archivedLogs[t]) : WellFormed(archivedLogs[t][i])

CorruptActive(i, bad) ==
  /\ Intact
  /\ currentLog' = [currentLog EXCEPT ![i] = bad]
  /\ last' = [op |-> "corrupt", line |-> i]
  /\ UNCHANGED <<policies, identities, trustScores, identityStore, logExists,
                 archivedLogs, lastHash, peerLastHash, journal, requireSig, now, calls, nops>>

CorruptRotated(t, i, bad) ==
  /\ Intact
  /\ archivedLogs' = [archivedLogs EXCEPT ![t] = [@ EXCEPT ![i] = bad]]
  /\ last' = [op |-> "corrupt", line |-> i]
  /\ UNCHANGED <<policies, identities, trustScores, identityStore, logExists,
                 currentLog, lastHash, peerLastHash, journal, requireSig, now, calls, nops>>

NextCorrupt ==
  \/ CanStart /\ WriteDecision
  \/ CanStart /\ WriteEscalation
  \/ Tick
  \/ \E i \in 1..Len(currentLog), bad \in BadLines : CorruptActive(i, bad)
  \/ \E t \in DOMAIN archivedLogs :
       \E i \in 1..Len(archivedLogs[t]), bad \in BadLines :
         CorruptRotated(t, i, bad)
  \/ \E filters \in Filters : Query(filters)
  \/ VerifyChain
  \/ \E t \in 0..MaxTime : VerifyChainRotated(t)

SpecCorrupt == Init /\ [][NextCorrupt]_vars

\* The position of the line of the file that is no entry, 0 if there is none.
BadPosition(lines) ==
  IF \A i \in 1..Len(lines) : WellFormed(lines[i]) THEN 0
  ELSE CHOOSE i \in 1..Len(lines) : ~WellFormed(lines[i])

\* verifyChain rejects a file at the line that is no entry.
VerifyChainStopsAtBadLine ==
  /\ \A t \in DOMAIN archivedLogs :
       LET bad == BadPosition(archivedLogs[t])
           ret == verifyChainRotated(World, t)
       IN bad # 0 => ~ret.valid /\ ret.line = bad
  /\ LET bad == BadPosition(currentLog)
         ret == verifyChainActive(World)
     IN bad # 0 => ~ret.valid /\ ret.line = bad

\* C22: a line that is not a well-formed entry makes verifyChain return
\* valid=false at that line's position, whereas query skips that line and
\* still returns every matching entry from the remaining lines of that
\* segment and of all other segments.
C22_MalformedLine ==
  /\ VerifyChainStopsAtBadLine
  /\ last.op = "query"
       => last.ret = SelectSeq(OnDisk, LAMBDA line :
                                 WellFormed(line) /\ Satisfies(line, last.filters))

\* A query without filters has returned the line {} among the entries.
C22_Witness ==
  /\ last.op = "query"
  /\ last.filters = EmptyObj
  /\ \E i \in 1..Len(last.ret) : last.ret[i] = EmptyObj
  /\ \E i \in 1..Len(last.ret) : WellFormed(last.ret[i])
  /\ ~verifyChainActive(World).valid

---------------------------------------------------------------------------
(* Contexts that carry secrets.                                            *)

SecretInputs ==
  {<<ReadX, [password |-> "pw", user |-> "u"]>>,
   <<ReadX, [password |-> "other", user |-> "u"]>>,
   <<ReadX, [password |-> "", user |-> "u"]>>,
   <<Refund, [amount |-> 700, token |-> "tk"]>>,
   <<Refund, [amount |-> 700, token |-> ""]>>}

NextSecret ==
  \/ CanStart /\ \E in \in SecretInputs : Execute(in[1], in[2], TRUE)
  \/ \E i \in 1..Len(calls) : TaskReturns(i)

SpecSecret == Init /\ [][NextSecret]_vars

\* The context with every sensitive field replaced by the marker.
Redacted(context) ==
  [k \in DOMAIN context |-> IF k \in SensitiveFields THEN REDACTED ELSE context[k]]

\* The entry's sanitized payload: context, or details in an agent_action.
Payload(entry) == IF Has(entry, "details") THEN entry.details ELSE entry.context

\* The call the step belongs to: the one begun, or the one whose task ended.
CallOfStep == IF last'.op = "execute" THEN NewCall ELSE DoneCall

\* C23: in every persisted policy_decision, escalation and agent_action
\* entry a context/details field whose key is exactly password, token,
\* secret, apiKey, ssn or creditCard is stored as the redaction marker and
\* every other field is stored unchanged, so that calls whose contexts
\* differ only in such a field write identical payloads; the caller's
\* context is not modified and the task receives the original values.
C23_Redaction ==
  [][/\ \A i \in 1..Len(NewLines) :
          NewLines[i].type \in {"policy_decision", "escalation", "agent_action"}
            => Payload(NewLines[i]) = Redacted(CallOfStep.context)
     /\ \A i \in 1..Len(calls) : calls'[i].context = calls[i].context]_vars

\* An execute with an empty password has written the password as it is,
\* and the task was started with the context as given.
C23_Witness ==
  /\ \E i \in 1..Len(journal) :
       /\ journal[i].type = "policy_decision"
       /\ journal[i].context = [password |-> "", user |-> "u"]
  /\ \E i \in 1..Len(journal) :
       /\ journal[i].type = "policy_decision"
       /\ journal[i].context = [password |-> REDACTED, user |-> "u"]
  /\ \E i \in 1..Len(calls) :
       /\ calls[i].invoked = 1
       /\ calls[i].context = [password |-> "pw", user |-> "u"]

---------------------------------------------------------------------------
(* Two ProductionAgents of one process over the same audit directory (the  *)
(* default auditPath of both): each constructs its own AuditLogger, and    *)
(* each logger keeps its own lastHash.  Both are constructed before the    *)
(* first write.                                                            *)

PeerAgent == "a2"

\* The world as the other logger has it: its lastHash in place of ours.
asPeer(w) == [w EXCEPT !.lastHash = w.peerLastHash, !.peerLastHash = w.lastHash]

\* The second agent's checkPermission(action, context), the policy step of
\* its execute: its PolicyEngine writes the decision with its AuditLogger.
PeerCheckPermission(action, context) ==
  /\ Began("peerCheckPermission")
  /\ LET r == checkPermission(asPeer(World), PeerAgent, action, context)
     IN /\ Commit(asPeer(r.w))
        /\ last' = [op |-> "peerCheckPermission", ret |-> r.ret]
  /\ UNCHANGED calls

NextShared ==
  \/ CanStart /\ \E executor \in BOOLEAN : Execute(ReadX, EmptyObj, executor)
  \/ \E i \in 1..Len(calls) : TaskReturns(i)
  \/ \E i \in 1..Len(calls) : TaskThrows(i)
  \/ CanStart /\ PeerCheckPermission(ReadX, EmptyObj)
  \/ Tick

SpecShared == Init /\ [][NextShared]_vars

\* C24: when several execute calls interleave on the same audit segment,
\* whether issued by one agent or by different agents configured with the
\* same audit path, no two entries of the segment carry the same
\* previousHash and the segment still verifies valid.
C24_SerializedAuditWrites ==
  \A seg \in Segments :
    /\ \A i, j \in 1..Len(seg) :
         seg[i].previousHash = seg[j].previousHash => i = j
    /\ verifyChain(seg).valid

\* The two agents have both written to the active file, and two of its
\* entries claim the same predecessor.
C24_Witness ==
  /\ \E i, j \in 1..Len(currentLog) :
       /\ i < j
       /\ currentLog[i].agentId = ThisAgent
       /\ currentLog[j].agentId = PeerAgent
       /\ currentLog[i].previousHash = currentLog[j].previousHash
  /\ ~verifyChain(currentLog).valid
  /\ \E i \in 1..Len(calls) : calls[i].state = "awaiting"

---------------------------------------------------------------------------
(* Overlapping execute calls of one agent.                                 *)

\* The trust score that results from applying, one after another, the
\* adjustments the log records: +1 for a successful action, -5 for a failed
\* one, each clamped to 0..100, and 0 at a revocation.
RECURSIVE TrustAfter(_, _)
TrustAfter(score, lines) ==
  IF lines = <<>> THEN score
  ELSE LET e == Head(lines)
           next == CASE e.type = "agent_action" /\ e.result.success ->
                          Min(100, score + 1)
                     [] e.type = "agent_action" /\ ~e.result.success ->
                          Max(0, score - 5)
                     [] e.type = "identity_verification"
                          /\ e.verificationType = "revocation" -> 0
                     [] OTHER -> score
       IN TrustAfter(next, Tail(lines))

\* C25: when several execute calls of the same agent overlap, each +1 / -5
\* trust adjustment is an atomic read-modify-write: the trust score equals
\* the result of applying all adjustments one after another, with clamping,
\* in the order the calls complete (the order of their agent_action
\* entries), and no adjustment is lost.
C25_NoLostTrustUpdate ==
  /\ getTrustScore(World, ThisAgent) = TrustAfter(100, journal)
  /\ identities[ThisAgent].status = "active"
       => /\ identities[ThisAgent].trustScore = TrustAfter(100, journal)
          /\ identityStore[ThisAgent].trustScore = TrustAfter(100, journal)

\* Three calls were pending together; the second failed first, then the
\* first and the third succeeded.
C25_Witness ==
  /\ Len(calls) = 3
  /\ \A i \in 1..3 : calls[i].state = "returned" /\ calls[i].invoked = 1
  /\ calls[2].ret.trustScore = 95
  /\ calls[1].ret.trustScore = 96
  /\ calls[3].ret.trustScore = 97
  /\ getTrustScore(World, ThisAgent) = 97
  /\ \A i \in 1..3 : calls[i].identityCheck.trustScore = 100

---------------------------------------------------------------------------
(* Reloading policies.  The policy directory is the caller's: its *.yaml   *)
(* files, in the order readdirSync lists them, as yaml.load parses them.   *)

\* A policy that allows nothing.
LockedPolicy == [deny |-> <<<<"*">>>>]

\* A file whose YAML has no 'agent' field.
FileWithoutAgent == [permissions |-> ScenarioPolicy]

PolicyFiles ==
  {[agent |-> ThisAgent, permissions |-> ScenarioPolicy],
   [agent |-> ThisAgent, permissions |-> LockedPolicy],
   [agent |-> PeerAgent, permissions |-> ScenarioPolicy],
   FileWithoutAgent}

PolicyDirectories ==
  {<<>>} \cup {<<f>> : f \in PolicyFiles}
         \cup {<<f, g>> : f \in PolicyFiles, g \in PolicyFiles}

\* The loop of loadPolicies from file i on: the first file without an agent
\* throws, and what was set before stays set.
RECURSIVE loadFrom(_, _, _)
loadFrom(map, files, i) ==
  IF i > Len(files) THEN [policies |-> map, threw |-> FALSE]
  ELSE IF ~Has(files[i], "agent") THEN [policies |-> map, threw |-> TRUE]
  ELSE loadFrom(MapSet(map, files[i].agent, files[i].permissions), files, i + 1)

\* loadPolicies()
loadPolicies(w, files) ==
  LET r == loadFrom(w.policies, files, 1)
  IN [w |-> [w EXCEPT !.policies = r.policies], threw |-> r.threw]

\* reloadPolicies(): this.policies.clear(); this.loadPolicies()
reloadPolicies(w, files) == loadPolicies([w EXCEPT !.policies = EmptyObj], files)

\* ProductionAgent.reloadPolicies()
ReloadPolicies(files) ==
  /\ Began("reloadPolicies")
  /\ LET r == reloadPolicies(World, files)
     IN /\ Commit(r.w)
        /\ last' = [op |-> "reloadPolicies", files |-> files, threw |-> r.threw]
  /\ UNCHANGED calls

NextReload ==
  \/ CanStart /\ \E files \in PolicyDirectories : ReloadPolicies(files)
  \/ CanStart /\ \E a \in {ThisAgent, PeerAgent} :
                   CheckPermission(a, ReadX, EmptyObj)

SpecReload == Init /\ [][NextReload]_vars

\* Every file of the directory names its agent.
AllLoadable(files) == \A i \in 1..Len(files) : Has(files[i], "agent")

\* The policy set of a directory: for each agent named, the permissions of
\* the last file that names it.
PolicySetOf(files) ==
  [a \in {files[i].agent : i \in 1..Len(files)} |->
     files[CHOOSE i \in 1..Len(files) :
             /\ files[i].agent = a
             /\ \A j \in 1..Len(files) : files[j].agent = a => j <= i].permissions]

\* C26: reloadPolicies atomically replaces the whole policy map with the
\* newly loaded set (a policy whose source was removed is no longer in
\* effect, nothing of the old set is merged in), and no checkPermission
\* call, before, during or after a reload, including one that fails
\* part-way, evaluates against an empty or partially loaded map: after a
\* reload the map is the whole new set, or the old set if the reload failed.
C26_AtomicReload ==
  [][last'.op = "reloadPolicies" /\ last' # last
       => IF AllLoadable(last'.files)
            THEN ~last'.threw /\ policies' = PolicySetOf(last'.files)
            ELSE policies' = policies]_vars

\* A reload failed at its first file; the agent's read, allowed before and
\* allowed by the policy still on disk, is then refused for want of a policy.
C26_Witness ==
  /\ last.op = "checkPermission"
  /\ last.agentId = ThisAgent
  /\ ~last.ret.allowed
  /\ policies = EmptyObj
  /\ \E i \in 1..Len(journal) :
       journal[i].type = "policy_decision" /\ journal[i].decision.allowed

---------------------------------------------------------------------------
(* The steps of one execute call.  A task that was started returns or      *)
(* throws in the end: the completions are weakly fair.                     *)

TaskEnds == \E i \in 1..Len(calls) : TaskReturns(i) \/ TaskThrows(i)

StepInputs ==
  {<<ReadX, EmptyObj, TRUE>>, <<ReadX, EmptyObj, FALSE>>,
   <<DeleteX, EmptyObj, TRUE>>, <<Refund, [amount |-> 700], TRUE>>}

NextSteps ==
  \/ CanStart /\ \E in \in StepInputs : Execute(in[1], in[2], in[3])
  \/ CanStart /\ RevokeIdentity(ThisAgent)
  \/ \E i \in 1..Len(calls) : TaskReturns(i)
  \/ \E i \in 1..Len(calls) : TaskThrows(i)

SpecSteps == Init /\ [][NextSteps]_vars /\ WF_vars(TaskEnds)

\* The types of the entries the step appended, in order.
NewTypes == [i \in 1..Len(NewLines) |-> NewLines[i].type]

\* What an execute call appends up to its return or to the start of its task.
StartedInOrder ==
  LET c == NewCall
  IN IF ~c.identityCheck.verified
       THEN NewTypes = <<"identity_verification">> /\ c.state = "returned"
     ELSE IF c.state = "awaiting"
       THEN NewTypes = <<"identity_verification", "policy_decision">>
     ELSE IF Has(c.ret, "requiresEscalation")
       THEN NewTypes = <<"identity_verification", "policy_decision", "escalation">>
     ELSE IF Has(c.ret, "policyDenied")
       THEN NewTypes = <<"identity_verification", "policy_decision">>
     ELSE NewTypes = <<"identity_verification", "policy_decision", "agent_action">>

\* What the call appends once its task has ended: the action first, then
\* what the trust adjustment writes (a revocation at score 0).
EndedInOrder ==
  /\ Len(NewLines) >= 1
  /\ NewTypes[1] = "agent_action"
  /\ \A i \in 2..Len(NewLines) :
       NewTypes[i] = "identity_verification"
         /\ NewLines[i].verificationType = "revocation"
  /\ Len(NewLines) <= 2
  /\ calls[last'.call].state = "awaiting"
  /\ DoneCall.state = "returned"

---------------------------------------------------------------------------
(* C28: verifyIdentity with a signature that does not verify.              *)

\* The step is a verifyIdentity call for an active agent whose credentials
\* hold a signature and a message that the stored public key rejects.
InvalidSignatureCall ==
  /\ Step("verifyIdentity")
  /\ Has(identities, last'.agentId)
  /\ identities[last'.agentId].status = "active"
  /\ Has(last'.credentials, "signature")
  /\ Has(last'.credentials, "message")
  /\ ~verifySignature(identities[last'.agentId].publicKey,
                      last'.credentials.message, last'.credentials.signature)

\* C28: verifyIdentity for an active agent with a signature and message
\* that do not verify against the stored public key lowers the trust score
\* by 10, floored at 0, returns verified = false with the reason "Invalid
\* signature" and the score after the decrement, appends nothing to
\* verificationHistory, and leaves the identity active unless the score
\* reached 0.
C28_InvalidSignature ==
  [][InvalidSignatureCall =>
       LET a == last'.agentId
           after == Max(0, getTrustScore(World, a) - 10)
       IN /\ getTrustScore(World', a) = after
          /\ last'.ret = [verified |-> FALSE, reason |-> "Invalid signature",
                          trustScore |-> after]
          /\ identities'[a].verificationHistory
               = identities[a].verificationHistory
          /\ identities'[a].status
               = IF after = 0 THEN "revoked" ELSE "active"]_vars

\* A forged signature was presented for an active agent that had been
\* verified once and penalised: the call returned the lowered score 45 and
\* the one earlier verification is all the history holds.
C28_Witness ==
  /\ last.op = "verifyIdentity"
  /\ last.ret.reason = "Invalid signature"
  /\ last.ret.trustScore = 45
  /\ getTrustScore(World, last.agentId) = 45
  /\ identities[last.agentId].status = "active"
  /\ Len(identities[last.agentId].verificationHistory) = 1

---------------------------------------------------------------------------
(* C29: resolveEscalation between escalated and allowed executions, for    *)
(* IDs that were returned and IDs that never were.                         *)

\* 0 is an ID execute can return; 7 is never returned.
EscalationIds == {0, 7}

ResolveInputs == {<<Refund, [amount |-> 700]>>, <<ReadX, EmptyObj>>}

NextResolve ==
  \/ CanStart /\ \E in \in ResolveInputs : Execute(in[1], in[2], TRUE)
  \/ CanStart /\ \E id \in EscalationIds, decision \in {"approved", "denied"} :
                   ResolveEscalation(id, decision)
  \/ \E i \in 1..Len(calls) : TaskReturns(i)
  \/ Tick

SpecResolve == Init /\ [][NextResolve]_vars

\* The escalation entries among the lines of one file.
EscalationsIn(lines) ==
  {lines[i] : i \in {j \in 1..Len(lines) : lines[j].type = "escalation"}}

\* The escalation entries of the active file and of the rotated files.
EscalationsOnDisk ==
  EscalationsIn(currentLog)
    \cup UNION {EscalationsIn(archivedLogs[t]) : t \in DOMAIN archivedLogs}

\* The step added the line to the active file, or renamed the active file
\* whole and started a new one with the line.
AppendedOrRotated(line) ==
  \/ /\ currentLog' = Append(currentLog, line)
     /\ archivedLogs' = archivedLogs
  \/ /\ currentLog' = <<line>>
     /\ Has(archivedLogs', now)
     /\ archivedLogs'[now] = currentLog
     /\ \A t \in (DOMAIN archivedLogs') \ {now} :
          Has(archivedLogs, t) /\ archivedLogs'[t] = archivedLogs[t]

---------------------------------------------------------------------------
(* C30: the escalation IDs execute returns, with several escalations in    *)
(* one millisecond and across milliseconds.                                *)

\* The calls that returned an escalation.
EscalatedCalls ==
  {i \in 1..Len(calls) :
     calls[i].state = "returned" /\ Has(calls[i].ret, "escalationId")}

\* The positions of the escalation entries of the log that carry the ID.
EscalationEntries(id) ==
  {k \in 1..Len(journal) :
     journal[k].type = "escalation" /\ journal[k].timestampUnix = id}

\* C30: every escalationId execute returned identifies exactly one
\* escalation entry of the log, and two distinct escalations never carry
\* the same escalationId.
C30_UniqueEscalationId ==
  /\ \A i \in EscalatedCalls :
       Cardinality(EscalationEntries(calls[i].ret.escalationId)) = 1
  /\ \A i, j \in EscalatedCalls :
       i # j => calls[i].ret.escalationId # calls[j].ret.escalationId

\* The ID an escalation was returned with never changes afterwards, in the
\* result or in the escalation entries written so far.
EscalationIdStable ==
  [][/\ \A i \in EscalatedCalls :
          /\ i \in EscalatedCalls'
          /\ calls'[i].ret.escalationId = calls[i].ret.escalationId
     /\ \A k \in 1..Len(journal) :
          journal[k].type = "escalation" =>
            journal'[k].timestampUnix = journal[k].timestampUnix]_vars

\* Two execute calls escalated within one millisecond and both returned the
\* escalationId 0, which two escalation entries carry.
C30_Witness ==
  /\ Len(calls) >= 2
  /\ 1 \in EscalatedCalls
  /\ 2 \in EscalatedCalls
  /\ calls[1].ret.escalationId = 0
  /\ calls[2].ret.escalationId = 0
  /\ Cardinality(EscalationEntries(0)) = 2

---------------------------------------------------------------------------
(* C31: execute with options.requireSignature = true, for contexts that    *)
(* carry a valid signature, a forged one, or none.                         *)

InitSigned ==
  InitWith(ensureIdentity([EmptyWorld EXCEPT
                             !.policies = MapSet(EmptyObj, ThisAgent, ScenarioPolicy)]),
           TRUE)

\* The contexts a caller passes: unsigned, signed by the agent's key, signed
\* by another key.
SignedContexts ==
  {EmptyObj,
   [signature |-> [key |-> KeyPair(ThisAgent, 0), msg |-> Msg], message |-> Msg],
   [signature |-> [key |-> KeyPair("forged", 0), msg |-> Msg], message |-> Msg]}

NextSigned ==
  \/ CanStart /\ \E context \in SignedContexts : Execute(ReadX, context, TRUE)
  \/ \E i \in 1..Len(calls) : TaskReturns(i)
  \/ \E i \in 1..Len(calls) : TaskThrows(i)

SpecSigned == InitSigned /\ [][NextSigned]_vars

\* The context carries a signature that verifies against the agent's key.
ValidlySigned(context) ==
  /\ Has(context, "signature")
  /\ Has(context, "message")
  /\ verifySignature(identities[ThisAgent].publicKey, context.message,
                     context.signature)

\* C31: with requireSignature set, a call whose context carries no
\* signature, or one that does not verify against the agent's public key,
\* fails identity verification and runs no task.
C31_SignatureRequired ==
  \A i \in 1..Len(calls) :
    requireSig /\ ~ValidlySigned(calls[i].context) =>
      ~calls[i].identityCheck.verified /\ calls[i].invoked = 0

\* With requireSignature set, a call whose context carries a signature that
\* does not verify fails identity verification and runs no task.
ForgedSignatureRejected ==
  \A i \in 1..Len(calls) :
    requireSig /\ Has(calls[i].context, "signature")
               /\ ~ValidlySigned(calls[i].context) =>
      ~calls[i].identityCheck.verified /\ calls[i].invoked = 0

\* With requireSignature set, a call without any signature was verified and
\* its task ran to the end.
C31_Witness ==
  /\ requireSig
  /\ Len(calls) >= 1
  /\ calls[1].context = EmptyObj
  /\ calls[1].identityCheck.verified
  /\ calls[1].invoked = 1
  /\ calls[1].state = "returned"
  /\ calls[1].ret.success

---------------------------------------------------------------------------
(* C32: healthCheck at every trust level, with and without a policy, for   *)
(* an active and a revoked identity, before and after a restart.           *)

\* IdentitySystem.getIdentity(agentId): a copy without the private key, or
\* null.
getIdentity(w, agentId) ==
  IF ~Has(w.identities, agentId) THEN Null
  ELSE [agentId |-> w.identities[agentId].agentId,
        publicKey |-> w.identities[agentId].publicKey,
        metadata |-> w.identities[agentId].metadata,
        status |-> w.identities[agentId].status,
        trustScore |-> getTrustScore(w, agentId),
        verificationCount |-> Len(w.identities[agentId].verificationHistory)]

\* PolicyEngine.getPolicyFor(agentId) is defined.
hasPolicyFor(w, agentId) == Has(w.policies, agentId)

\* A health check that accepts the score 50.
healthCheck_atLeast(w) ==
  LET identity == getIdentity(w, ThisAgent)
      trustScore == getTrustScore(w, ThisAgent)
  IN [agentId |-> ThisAgent,
      status |-> IF identity # Null THEN identity.status ELSE "unknown",
      trustScore |-> trustScore,
      hasPolicy |-> hasPolicyFor(w, ThisAgent),
      identityVerified |-> identity # Null,
      healthy |-> identity # Null /\ hasPolicyFor(w, ThisAgent)
                    /\ trustScore >= MinTrustScore]

\* ProductionAgent.healthCheck()
healthCheck(w) ==
  LET identity == getIdentity(w, ThisAgent)
      trustScore == getTrustScore(w, ThisAgent)
  IN [agentId |-> ThisAgent,
      status |-> IF identity # Null THEN identity.status ELSE "unknown",
      trustScore |-> trustScore,
      hasPolicy |-> hasPolicyFor(w, ThisAgent),
      identityVerified |-> identity # Null,
      healthy |-> identity # Null /\ hasPolicyFor(w, ThisAgent)
                    /\ trustScore > MinTrustScore]

HealthCheck == Reads("healthCheck", [ret |-> healthCheck(World)])

\* Trust adjustments that reach the scores on both sides of the threshold.
HealthAmounts == {1, 49, 50}

\* The policy directory holds the agent's policy, or another agent's only.
HealthDirectories ==
  {<<[agent |-> ThisAgent, permissions |-> ScenarioPolicy]>>,
   <<[agent |-> PeerAgent, permissions |-> ScenarioPolicy]>>}

NextHealth ==
  \/ HealthCheck
  \/ CanStart /\ \E amount \in HealthAmounts : DecrementTrustScore(ThisAgent, amount)
  \/ CanStart /\ \E amount \in HealthAmounts : IncrementTrustScore(ThisAgent, amount)
  \/ CanStart /\ RevokeIdentity(ThisAgent)
  \/ CanStart /\ \E files \in HealthDirectories : ReloadPolicies(files)
  \/ CanStart /\ Restart

SpecHealth == Init /\ [][NextHealth]_vars

\* C32: healthCheck reports healthy = true exactly when the agent has an
\* identity, a policy is loaded for it and its trust score is above 50; it
\* reports the identity's status, the current trust score and whether a
\* policy is present, and it changes no state.
C32_HealthCheck ==
  [][last'.op = "healthCheck" /\ last' # last =>
       /\ last'.ret.healthy
            = (/\ Has(identities, ThisAgent)
               /\ Has(policies, ThisAgent)
               /\ getTrustScore(World, ThisAgent) > 50)
       /\ Has(identities, ThisAgent)
            => last'.ret.status = identities[ThisAgent].status
       /\ last'.ret.trustScore = getTrustScore(World, ThisAgent)
       /\ last'.ret.hasPolicy = Has(policies, ThisAgent)
       /\ World' = World
       /\ calls' = calls]_vars

\* At score 51, with a policy and an active identity, the check reported
\* healthy.
C32_Witness ==
  /\ last.op = "healthCheck"
  /\ last.ret.healthy
  /\ last.ret.trustScore = 51
  /\ last.ret.status = "active"
  /\ last.ret.hasPolicy

---------------------------------------------------------------------------
(* C33: generateComplianceReport over logs of decisions, actions and       *)
(* escalations of two agents, for every window of the modelled time.       *)

GenerateComplianceReport(startTime, endTime) ==
  Reads("generateComplianceReport",
        [startTime |-> startTime, endTime |-> endTime,
         ret |-> generateComplianceReport(World, startTime, endTime)])

ReportInputs == {<<ReadX, EmptyObj>>, <<Refund, [amount |-> 700]>>}

NextReport ==
  \/ CanStart /\ \E a \in Agents, in \in ReportInputs :
                   CheckPermission(a, in[1], in[2])
  \/ CanStart /\ WriteEscalation
  \/ CanStart /\ LogAction(ThisAgent, ReadX, EmptyObj,
                           [success |-> TRUE, output |-> "out"])
  \/ Tick
  \/ \E startTime \in 0..MaxTime, endTime \in 0..MaxTime :
       GenerateComplianceReport(startTime, endTime)

SpecReport == Init /\ [][NextReport]_vars

\* The sum of a function of numbers.
RECURSIVE SumOf(_)
SumOf(f) ==
  IF DOMAIN f = {} THEN 0
  ELSE LET k == CHOOSE x \in DOMAIN f : TRUE
       IN f[k] + SumOf([x \in (DOMAIN f) \ {k} |-> f[x]])

\* The entries query returns for the window of the last report.
Window == query(World, [startTime |-> last.startTime, endTime |-> last.endTime])

\* The positions of the window's entries of one type.
InWindow(type) == {i \in 1..Len(Window) : Window[i].type = type}

\* What the last report holds against the entries of its window.
ReportAggregates ==
  last.op = "generateComplianceReport" =>
    LET report == last.ret
        decisions == InWindow("policy_decision")
        allowed == {i \in decisions : Window[i].decision.allowed}
        escalating == {i \in decisions : Window[i].decision.requiresEscalation}
        escalations == InWindow("escalation")
    IN /\ report.summary.totalDecisions = Cardinality(decisions)
       /\ report.summary.totalDecisions
            = report.summary.allowed + report.summary.denied
       /\ report.summary.allowed = Cardinality(allowed)
       /\ report.summary.escalations = Cardinality(escalating)
       /\ report.summary.actions = Cardinality(InWindow("agent_action"))
       /\ SumOf([a \in DOMAIN report.byAgent |-> report.byAgent[a].allowed])
            = report.summary.allowed
       /\ SumOf([a \in DOMAIN report.byAgent |-> report.byAgent[a].denied])
            = report.summary.denied
       /\ SumOf([a \in DOMAIN report.byAgent |-> report.byAgent[a].escalations])
            = report.summary.escalations
       /\ SumOf(report.byAction) = report.summary.totalDecisions
       /\ Len(report.escalations) = Cardinality(escalations)
       /\ \A i \in escalations :
            \E k \in 1..Len(report.escalations) :
              /\ report.escalations[k].timestamp = Window[i].timestamp
              /\ report.escalations[k].agentId = Window[i].agentId
              /\ report.escalations[k].action = Window[i].action
              /\ report.escalations[k].reason = Window[i].escalationReason

\* C33: the report aggregates the entries query returns for the window:
\* totalDecisions is the number of policy_decision entries and equals
\* allowed + denied, escalations counts the decisions with
\* requiresEscalation, the per-agent and per-action tallies sum to the same
\* totals, every escalation entry of the window is listed, and the call
\* writes nothing.
C33_ComplianceReport ==
  /\ []ReportAggregates
  /\ [][last'.op = "generateComplianceReport" /\ last' # last =>
         World' = World /\ calls' = calls]_vars

\* A report over a window with decisions of both agents, allowed, denied
\* and escalated, and with an escalation entry.
C33_Witness ==
  /\ last.op = "generateComplianceReport"
  /\ last.ret.summary.totalDecisions = 3
  /\ last.ret.summary.allowed = 1
  /\ last.ret.summary.denied = 2
  /\ last.ret.summary.escalations = 1
  /\ Cardinality(DOMAIN last.ret.byAgent) = 2
  /\ Len(last.ret.escalations) = 1

---------------------------------------------------------------------------
(* C34: createIdentity for agents with and without an identity.            *)

\* C34: createIdentity for an agentId that already has an identity fails
\* with an error and leaves the existing identity (keys, trust score,
\* status, verification history) and everything else unchanged; for a new
\* agentId it creates an identity with trust score 100 and status active,
\* saves it, and returns a view without the private key.
C34_CreateIdentity ==
  [][Step("createIdentity") =>
       LET a == last'.agentId
       IN IF Has(identities, a)
            THEN /\ last'.threw
                 /\ World' = World
            ELSE /\ ~last'.threw
                 /\ Has(identities', a)
                 /\ identities'[a].status = "active"
                 /\ identities'[a].trustScore = 100
                 /\ identities'[a].verificationHistory = <<>>
                 /\ getTrustScore(World', a) = 100
                 /\ identityStore'[a] = identities'[a]
                 /\ DOMAIN last'.ret
                      = {"agentId", "publicKey", "metadata", "trustScore"}
                 /\ last'.ret.agentId = a
                 /\ last'.ret.publicKey = identities'[a].publicKey
                 /\ last'.ret.trustScore = 100
                 /\ \A b \in DOMAIN identities :
                      /\ identities'[b] = identities[b]
                      /\ getTrustScore(World', b) = getTrustScore(World, b)
                 /\ journal' = journal]_vars

\* createIdentity was refused for an agent whose identity had been verified,
\* penalised and given a second key pair.
C34_Witness ==
  /\ last.op = "createIdentity"
  /\ last.threw
  /\ Has(identities, last.agentId)
  /\ identities[last.agentId].publicKey = KeyPair(last.agentId, 1)
  /\ getTrustScore(World, last.agentId) < 100

\* createIdentity made the identity of an agent that had none.
C34_Created ==
  /\ last.op = "createIdentity"
  /\ ~last.threw
  /\ last.agentId = "a2"
  /\ identities["a2"].status = "active"

---------------------------------------------------------------------------
(* C35: the trust score of a revoked identity, with tasks that were        *)
(* running when the identity was revoked.                                  *)

\* C35: in every reachable state an identity whose status is revoked has
\* trust score 0.
C35_RevokedScoreZero ==
  \A a \in DOMAIN identities :
    identities[a].status = "revoked" => getTrustScore(World, a) = 0

\* A task that was running when the identity was revoked returned, and the
\* revoked identity has the score 1.
C35_Witness ==
  /\ Revoked(identities, ThisAgent)
  /\ last.op = "taskReturns"
  /\ calls[last.call].ret.success
  /\ getTrustScore(World, ThisAgent) = 1
  /\ identities[ThisAgent].trustScore = 1

\* An incrementTrustScore call made after the revocation gave the revoked
\* identity a score above 0.
RevokedThenIncremented ==
  /\ Revoked(identities, ThisAgent)
  /\ last.op = "incrementTrustScore"
  /\ getTrustScore(World, ThisAgent) > 0

---------------------------------------------------------------------------
(* C36: healthCheck for a revoked identity, after trust adjustments and    *)
(* after a restart of the identity system.                                 *)

\* C36: healthCheck never reports healthy = true for an agent whose
\* identity status is revoked.
C36_RevokedNeverHealthy ==
  Revoked(identities, ThisAgent) => ~healthCheck(World).healthy

\* The identity was revoked and the identity system rebuilt from the store:
\* healthCheck reported status revoked, trust score 100 and healthy.
C36_Witness ==
  /\ last.op = "healthCheck"
  /\ last.ret.status = "revoked"
  /\ last.ret.trustScore = 100
  /\ last.ret.healthy
  /\ identityStore[ThisAgent].status = "revoked"

---------------------------------------------------------------------------
(* C37: a new IdentitySystem over the persisted identity store.            *)

\* C37: a restart preserves identity state: for every agent the status and
\* the trust score the new IdentitySystem reports equal those the previous
\* instance reported immediately before.
C37_RestartPreservesIdentity ==
  [][Step("restart") =>
       \A a \in DOMAIN identities :
         /\ Has(identities', a)
         /\ identities'[a].status = identities[a].status
         /\ getTrustScore(World', a) = getTrustScore(World, a)]_vars

\* For the agents whose score is above 0, a restart preserves status and
\* trust score.
RestartPreservesPositiveScores ==
  [][Step("restart") =>
       \A a \in DOMAIN identities :
         getTrustScore(World, a) > 0 =>
           /\ Has(identities', a)
           /\ identities'[a].status = identities[a].status
           /\ getTrustScore(World', a) = getTrustScore(World, a)]_vars

\* The score fell to 0, which revoked the identity and was saved; the
\* identity system rebuilt from the store reports the score 100.
C37_Witness ==
  /\ last.op = "restart"
  /\ identityStore[ThisAgent].trustScore = 0
  /\ identities[ThisAgent].status = "revoked"
  /\ getTrustScore(World, ThisAgent) = 100

---------------------------------------------------------------------------
(* C38: someone with write access to the log file removes one line of the  *)
(* active segment.                                                         *)

\* The sequence without its i-th element.
Without(s, i) == SubSeq(s, 1, i - 1) \o SubSeq(s, i + 1, Len(s))

RemoveEntry(i) ==
  /\ last.op # "remove"
  /\ currentLog' = Without(currentLog, i)
  /\ last' = [op |-> "remove", line |-> i, of |-> Len(currentLog)]
  /\ nops' = nops + 1
  /\ UNCHANGED <<policies, identities, trustScores, identityStore, logExists,
                 archivedLogs, lastHash, peerLastHash, journal, requireSig, now, calls>>

Complete == last.op # "remove" /\ CanStart

NextRemove ==
  \/ Complete /\ WriteDecision
  \/ Complete /\ WriteAction
  \/ Complete /\ WriteEscalation
  \/ Complete /\ WriteVerification
  \/ \E i \in 1..Len(currentLog) : RemoveEntry(i)

SpecRemove == Init /\ [][NextRemove]_vars

\* C38: removing any entry from a written segment, the first, a middle one
\* or the last, makes verifyChain on that segment return valid = false.
C38_RemovalEvident ==
  last.op = "remove" => ~verifyChain(currentLog).valid

\* Removing an entry that is not the last of a segment makes verifyChain on
\* the segment return valid = false, at the position of the removed entry.
InnerRemovalEvident ==
  last.op = "remove" /\ last.line < last.of =>
    /\ ~verifyChain(currentLog).valid
    /\ verifyChain(currentLog).line = last.line

\* The last of two entries was removed and the segment still verifies.
C38_Witness ==
  /\ last.op = "remove"
  /\ last.of = 2
  /\ last.line = 2
  /\ Len(currentLog) = 1
  /\ verifyChain(currentLog).valid

---------------------------------------------------------------------------
(* C39: execute calls one after the other, none carrying a signature, from *)
(* the trust scores around the gate.                                       *)

\* The scores within one failure of the gate, which calls one after the
\* other reach from 100, and the score of a fresh agent.
GateScores ==
  ((MinTrustScore - FailurePenalty)..(MinTrustScore + FailurePenalty)) \cup {100}

\* The agent after the earlier calls left it at the score.
AtScore(score) ==
  LET w == ensureIdentity([EmptyWorld EXCEPT
                             !.policies = MapSet(EmptyObj, ThisAgent, ScenarioPolicy)])
      w1 == [w EXCEPT !.trustScores = MapSet(@, ThisAgent, score),
                      !.identities[ThisAgent].trustScore = score]
  IN saveIdentity(w1, ThisAgent)

InitGate == \E score \in GateScores : InitWith(AtScore(score), FALSE)

\* No call is awaiting its task.
NoneRunning == \A i \in 1..Len(calls) : calls[i].state = "returned"

NextSerial ==
  \/ NoneRunning /\ Len(calls) < MaxCalls /\ Execute(ReadX, EmptyObj, TRUE)
  \/ \E i \in 1..Len(calls) : TaskReturns(i)
  \/ \E i \in 1..Len(calls) : TaskThrows(i)

SpecSerial == InitGate /\ [][NextSerial]_vars

\* C39: when the trust score changes only through execute calls that do
\* not overlap and carry no signature, the score never falls below 45 and
\* the identity is never auto-revoked, however many tasks fail.
C39_SerialFloor ==
  /\ getTrustScore(World, ThisAgent) >= MinTrustScore - FailurePenalty
  /\ identities[ThisAgent].status = "active"
  /\ \A i \in 1..Len(journal) :
       journal[i].type = "identity_verification"
         => journal[i].verificationType # "revocation"

\* The task of a call admitted at score 50 threw, the score is 45, and the
\* next call was refused at the gate.
C39_Witness ==
  /\ Len(calls) >= 2
  /\ calls[1].state = "returned"
  /\ ~calls[1].ret.success
  /\ calls[1].invoked = 1
  /\ calls[1].identityCheck.trustScore = 50
  /\ ~calls[2].identityCheck.verified
  /\ calls[2].invoked = 0
  /\ getTrustScore(World, ThisAgent) = 45

---------------------------------------------------------------------------
(* C40: overlapping execute calls from the scores around the gate.         *)

NextLockout ==
  \/ Len(calls) < MaxOps /\ Execute(ReadX, EmptyObj, TRUE)
  \/ \E i \in 1..Len(calls) : TaskReturns(i)
  \/ \E i \in 1..Len(calls) : TaskThrows(i)

SpecLockout == InitGate /\ [][NextLockout]_vars

\* The score is below the gate and no task of the agent is running.
LockedOut ==
  getTrustScore(World, ThisAgent) < MinTrustScore /\ NoneRunning

\* C40: lockout is absorbing under execute: once the trust score is below
\* 50 and no task is still running, every later execute call is refused at
\* identity verification, runs no task, and leaves the score where it is.
C40_LockoutAbsorbing ==
  [][LockedOut =>
       /\ LockedOut'
       /\ getTrustScore(World', ThisAgent) = getTrustScore(World, ThisAgent)
       /\ last'.op = "execute" /\ nops' = nops + 1 =>
            /\ ~NewCall.identityCheck.verified
            /\ NewCall.invoked = 0
            /\ ~NewCall.ret.success]_vars

\* Two overlapping tasks admitted at score 50 both threw, which left the
\* score at 40, and the call that followed was refused.
C40_Witness ==
  /\ Len(calls) = 3
  /\ calls[1].identityCheck.trustScore = 50
  /\ calls[2].identityCheck.trustScore = 50
  /\ calls[1].invoked = 1
  /\ calls[2].invoked = 1
  /\ NoneRunning
  /\ getTrustScore(World, ThisAgent) = 40
  /\ ~calls[3].identityCheck.verified
  /\ calls[3].invoked = 0

====
